---- MODULE Spec2Model ----
(***************************************************************************)
(* Metadata inference and title cleaning of the audio metadata editor:     *)
(* backend/core/tag_inference.py (class TagInference) together with the    *)
(* tag writer of backend/core/metadata_manager.py that its apply step      *)
(* drives.                                                                 *)
(*                                                                         *)
(* A Python str is modelled as a sequence of one-character strings, so     *)
(* that the regular expressions, split, strip and lower of the source are  *)
(* computed character by character; Str("ab") is <<"a", "b">>.  An         *)
(* optional value (None or a str) is a sequence of length 0 or 1.          *)
(***************************************************************************)
EXTENDS Integers, Sequences, FiniteSets, TLC

VARIABLES
    pc,             \* position of the driver that is running
    filename_data,  \* analyze_folder: the list of entries built in step 1
    artist_side,    \* analyze_folder: the policy; <<>> while not computed
    item,           \* _process_file: the entry being resolved
    policy,         \* _process_file: its artist_side argument
    record,         \* _process_file: the frame of the finished call
    title_string,   \* _clean_title: the title argument
    known_artists,  \* _clean_title: the known_artists argument
    cleaned,        \* _clean_title: local `cleaned` before final validation
    title_result,   \* _clean_title: the returned pair
    second_result,  \* _clean_title applied to its own returned title
    disk,           \* per path: the tags stored in the file
    cleaned_data,   \* the mapping a preview returned, apply's argument
    todo,           \* apply_cleaned_metadata: paths the loop has not visited
    success_count,  \* apply_cleaned_metadata: local success_count
    writes,         \* log of write_metadata calls: <<path, outcome>>
    escaped,        \* TRUE when an exception left apply_cleaned_metadata
    artist_arg,     \* _parse_artists, _clean_junky_artist: the argument
    parsed_artists, \* _parse_artists: the returned dict
    junky_artist,   \* _clean_junky_artist: the returned str
    second_side,    \* _determine_artist_side evaluated again on the batch
    trace,          \* analyze_folder: the calls it made so far, in order
    previous_results, \* what analyze_folder returned in the run before
    retagged,       \* the file whose tags changed between the two runs
    batch_paths,    \* analyze_folder: the file_paths argument
    batch_results,  \* analyze_folder: the local `results`
    cursor,         \* analyze_folder: index of the next round of its loop
    name_arg,       \* clean_filename: the filename argument
    cleaned_name,   \* clean_filename: what the call returned
    recleaned_name, \* clean_filename: what it returned for cleaned_name
    saved_count,    \* apply_cleaned_titles: its counter
    selection,      \* auto_cleanup: paths of listWidget.selectedItems()
    ui_artist,      \* auto_cleanup: text of the artist input
    preview_dialog, \* auto_cleanup: the message box on screen, its answer
    tags_at_click,  \* the tags of every file when auto_cleanup was called
    first_preview   \* the mapping that is being applied, if it was computed
                    \* from the tags the files have when apply starts

vars == <<pc, filename_data, artist_side, item, policy, record, title_string,
          known_artists, cleaned, title_result, second_result, disk,
          cleaned_data, todo, success_count, writes, escaped,
          artist_arg, parsed_artists, junky_artist, second_side, trace,
          previous_results, retagged, batch_paths, batch_results, cursor,
          name_arg, cleaned_name, recleaned_name, saved_count,
          selection, ui_artist, preview_dialog, tags_at_click,
          first_preview>>

-----------------------------------------------------------------------------
(* Characters *)

UpperChars == <<"A","B","C","D","E","F","G","H","I","J","K","L","M",
                "N","O","P","Q","R","S","T","U","V","W","X","Y","Z","Ó","Í">>
LowerChars == <<"a","b","c","d","e","f","g","h","i","j","k","l","m",
                "n","o","p","q","r","s","t","u","v","w","x","y","z","ó","í">>
DigitChars == {"0","1","2","3","4","5","6","7","8","9"}
SpaceChars == {" ", "\t", "\n", "\r"}

Range(f) == {f[i] : i \in DOMAIN f}

\* a str literal as the sequence of its characters
Str(s) == [i \in 1..Len(s) |-> SubSeq(s, i, i)]

\* str.lower() on one character
LowerChar(c) ==
    IF \E i \in DOMAIN UpperChars : UpperChars[i] = c
    THEN LowerChars[CHOOSE i \in DOMAIN UpperChars : UpperChars[i] = c]
    ELSE c

\* \w of the re module
IsWordChar(c) ==
    c \in Range(UpperChars) \cup Range(LowerChars) \cup DigitChars \cup {"_"}

-----------------------------------------------------------------------------
(* str methods used by the source *)

Lower(s) == [i \in 1..Len(s) |-> LowerChar(s[i])]

\* s.replace('_', ' ')
ReplaceUnderscores(s) == [i \in 1..Len(s) |-> IF s[i] = "_" THEN " " ELSE s[i]]

RECURSIVE LStrip(_)
LStrip(s) == IF s # <<>> /\ Head(s) \in SpaceChars THEN LStrip(Tail(s)) ELSE s

RECURSIVE RStrip(_)
RStrip(s) ==
    IF s # <<>> /\ s[Len(s)] \in SpaceChars
    THEN RStrip(SubSeq(s, 1, Len(s) - 1)) ELSE s

\* s.strip()
Strip(s) == RStrip(LStrip(s))

\* sub occurs in s at index i
OccursAt(sub, s, i) ==
    /\ i + Len(sub) - 1 <= Len(s)
    /\ \A k \in 1..Len(sub) : s[i + k - 1] = sub[k]

\* sub in s
Contains(sub, s) == \E i \in 1..(Len(s) + 1) : OccursAt(sub, s, i)

\* index of the first occurrence of sub in s (sub in s is required)
Find(sub, s) == CHOOSE i \in 1..(Len(s) + 1) :
    /\ OccursAt(sub, s, i)
    /\ \A j \in 1..(i - 1) : ~OccursAt(sub, s, j)

\* the text before and the text after the occurrence of sep at index i
Before(s, i) == SubSeq(s, 1, i - 1)
After(s, sep, i) == SubSeq(s, i + Len(sep), Len(s))

\* s.split(sep, 1)
SplitOnce(s, sep) ==
    IF Contains(sep, s)
    THEN <<Before(s, Find(sep, s)), After(s, sep, Find(sep, s))>>
    ELSE <<s>>

\* s.split(sep)
RECURSIVE Split(_, _)
Split(s, sep) ==
    IF Contains(sep, s)
    THEN <<Before(s, Find(sep, s))>> \o Split(After(s, sep, Find(sep, s)), sep)
    ELSE <<s>>

\* sep.join(parts)
RECURSIVE Join(_, _)
Join(parts, sep) ==
    IF parts = <<>> THEN <<>>
    ELSE IF Len(parts) = 1 THEN parts[1]
    ELSE parts[1] \o sep \o Join(Tail(parts), sep)

-----------------------------------------------------------------------------
(* The re module: a backtracking matcher.  A pattern is a tree of records; *)
(* Ends(n, s, i) is the list of positions at which a match of n that       *)
(* starts at i can end, in the order in which backtracking tries them, so  *)
(* its head is the match re finds.  All patterns of the source are         *)
(* compiled with re.IGNORECASE: literals are given in lower case and       *)
(* compared with the lower-cased subject.                                  *)

Lit(w)      == [t |-> "lit", w |-> w]        \* a literal string
Class(cs)   == [t |-> "class", cs |-> cs]    \* [...]
NotClass(cs) == [t |-> "notclass", cs |-> cs] \* [^...]
Cat(ps)     == [t |-> "cat", ps |-> ps]      \* concatenation
Alt(ps)     == [t |-> "alt", ps |-> ps]      \* p1|p2|...
Opt(p)      == [t |-> "opt", p |-> p]        \* p?
Star(p)     == [t |-> "star", p |-> p]       \* p*
Plus(p)     == Cat(<<p, Star(p)>>)           \* p+
LazyPlus(p) == [t |-> "lazyplus", p |-> p]   \* p+?
EndOfString == [t |-> "eos"]                 \* $
WordBoundary == [t |-> "wb"]                 \* \b
Ws          == Class(SpaceChars)             \* \s
Digit       == Class(DigitChars)             \* \d

LitAt(w, s, i) ==
    /\ i + Len(w) - 1 <= Len(s)
    /\ \A k \in 1..Len(w) : LowerChar(s[i + k - 1]) = w[k]

WordAt(s, i) == i >= 1 /\ i <= Len(s) /\ IsWordChar(s[i])

RECURSIVE Ends(_, _, _), EndsAfter(_, _, _, _), EndsAlt(_, _, _),
          EndsStar(_, _, _, _), EndsLazy(_, _, _)
Ends(n, s, i) ==
    CASE n.t = "lit" -> IF LitAt(n.w, s, i) THEN <<i + Len(n.w)>> ELSE <<>>
      [] n.t = "class" ->
            IF i <= Len(s) /\ LowerChar(s[i]) \in n.cs THEN <<i + 1>> ELSE <<>>
      [] n.t = "notclass" ->
            IF i <= Len(s) /\ LowerChar(s[i]) \notin n.cs THEN <<i + 1>> ELSE <<>>
      [] n.t = "eos" ->
            IF i = Len(s) + 1 \/ (i = Len(s) /\ s[i] = "\n") THEN <<i>> ELSE <<>>
      [] n.t = "wb" -> IF WordAt(s, i - 1) # WordAt(s, i) THEN <<i>> ELSE <<>>
      [] n.t = "cat" ->
            IF n.ps = <<>> THEN <<i>>
            ELSE EndsAfter(Ends(Head(n.ps), s, i), Cat(Tail(n.ps)), s, 1)
      [] n.t = "alt" -> EndsAlt(n.ps, s, i)
      [] n.t = "opt" -> Ends(n.p, s, i) \o <<i>>
      [] n.t = "star" -> EndsStar(Ends(n.p, s, i), n, s, i) \o <<i>>
      [] n.t = "lazyplus" -> EndsLazy(Ends(n.p, s, i), n, s)

\* for each end e of the first part, in order, the ends of the rest from e
EndsAfter(es, rest, s, k) ==
    IF k > Len(es) THEN <<>>
    ELSE Ends(rest, s, es[k]) \o EndsAfter(es, rest, s, k + 1)

EndsAlt(ps, s, i) ==
    IF ps = <<>> THEN <<>> ELSE Ends(Head(ps), s, i) \o EndsAlt(Tail(ps), s, i)

\* greedy repetition: one more (non-empty) round first, then stop
EndsStar(es, n, s, i) ==
    IF es = <<>> THEN <<>>
    ELSE (IF Head(es) > i THEN Ends(n, s, Head(es)) ELSE <<>>)
         \o EndsStar(Tail(es), n, s, i)

\* lazy repetition: stop first, then one more round
EndsLazy(es, n, s) ==
    IF es = <<>> THEN <<>>
    ELSE <<Head(es)>> \o Ends(n, s, Head(es)) \o EndsLazy(Tail(es), n, s)

\* a non-empty match of pat starts at i
MatchesAt(pat, s, i) == Ends(pat, s, i) # <<>> /\ Head(Ends(pat, s, i)) > i

\* the least of a set of positions, 0 if there is none
FirstOf(positions) ==
    IF positions = {} THEN 0
    ELSE CHOOSE i \in positions : \A j \in positions : i <= j

\* where the scan that is at p finds its next match, 0 if it finds none
FirstMatch(pat, s, p) == FirstOf({i \in p..Len(s) : MatchesAt(pat, s, i)})

\* re.sub(pattern, '', s): leftmost non-overlapping matches removed; i is
\* the start of the next match from p
RECURSIVE SubFrom(_, _, _)
SubStep(pat, s, p, i) ==
    IF i = 0 THEN SubSeq(s, p, Len(s))
    ELSE SubSeq(s, p, i - 1) \o SubFrom(pat, s, Head(Ends(pat, s, i)))

SubFrom(pat, s, p) ==
    IF p > Len(s) THEN <<>> ELSE SubStep(pat, s, p, FirstMatch(pat, s, p))

re_sub(pat, s) == SubFrom(pat, s, 1)

\* re.sub(r'\s+', ' ', s)
RECURSIVE CollapseFrom(_, _)
CollapseStep(s, p, i) ==
    IF i = 0 THEN SubSeq(s, p, Len(s))
    ELSE SubSeq(s, p, i - 1) \o <<" ">>
         \o CollapseFrom(s, Head(Ends(Plus(Ws), s, i)))

CollapseFrom(s, p) ==
    IF p > Len(s) THEN <<>> ELSE CollapseStep(s, p, FirstMatch(Plus(Ws), s, p))

CollapseWhitespace(s) == CollapseFrom(s, 1)

\* re.split(pattern, s) for a pattern without groups
RECURSIVE SplitFrom(_, _, _)
SplitStep(pat, s, start, i) ==
    IF i = 0 THEN <<SubSeq(s, start, Len(s))>>
    ELSE <<SubSeq(s, start, i - 1)>>
         \o SplitFrom(pat, s, Head(Ends(pat, s, i)))

SplitFrom(pat, s, start) ==
    IF start > Len(s) THEN <<<<>>>>
    ELSE SplitStep(pat, s, start, FirstMatch(pat, s, start))

re_split(pat, s) == SplitFrom(pat, s, 1)

-----------------------------------------------------------------------------
(* TagInference: pattern tables *)

\* NOISE_PATTERNS, in the order of the source
NOISE_PATTERNS == <<
    \* \(official\s+(?:music\s+)?video\)
    Cat(<<Lit(Str("(official")), Plus(Ws), Opt(Cat(<<Lit(Str("music")), Plus(Ws)>>)),
          Lit(Str("video)"))>>),
    \* \(official\s+lyric\s+video\)
    Cat(<<Lit(Str("(official")), Plus(Ws), Lit(Str("lyric")), Plus(Ws), Lit(Str("video)"))>>),
    \* \(official\s+audio\)
    Cat(<<Lit(Str("(official")), Plus(Ws), Lit(Str("audio)"))>>),
    \* \(official\s+visualizer\)
    Cat(<<Lit(Str("(official")), Plus(Ws), Lit(Str("visualizer)"))>>),
    \* \(lyric\s+video\)
    Cat(<<Lit(Str("(lyric")), Plus(Ws), Lit(Str("video)"))>>),
    \* \(music\s+video\)
    Cat(<<Lit(Str("(music")), Plus(Ws), Lit(Str("video)"))>>),
    \* \(audio\)
    Lit(Str("(audio)")),
    \* \(visualizer\)
    Lit(Str("(visualizer)")),
    \* \[official\s+(?:music\s+)?video\]
    Cat(<<Lit(Str("[official")), Plus(Ws), Opt(Cat(<<Lit(Str("music")), Plus(Ws)>>)),
          Lit(Str("video]"))>>),
    \* \[official\s+lyric\s+video\]
    Cat(<<Lit(Str("[official")), Plus(Ws), Lit(Str("lyric")), Plus(Ws), Lit(Str("video]"))>>),
    \* \[official\s+audio\]
    Cat(<<Lit(Str("[official")), Plus(Ws), Lit(Str("audio]"))>>),
    \* \[\d+k\s+upgrade\]
    Cat(<<Lit(Str("[")), Plus(Digit), Lit(Str("k")), Plus(Ws), Lit(Str("upgrade]"))>>),
    \* \(video\s+oficial[^)]*\)
    Cat(<<Lit(Str("(video")), Plus(Ws), Lit(Str("oficial")), Star(NotClass({")"})),
          Lit(Str(")"))>>),
    \* \+\s*traducción
    Cat(<<Lit(Str("+")), Star(Ws), Lit(Str("traducción"))>>),
    \* \+\s*letra
    Cat(<<Lit(Str("+")), Star(Ws), Lit(Str("letra"))>>),
    \* music\s+from\s+"[^"]*"
    Cat(<<Lit(Str("music")), Plus(Ws), Lit(Str("from")), Plus(Ws), Lit(Str("\"")),
          Star(NotClass({"\""})), Lit(Str("\""))>>),
    \* \s*-?\s*topic$
    Cat(<<Star(Ws), Opt(Lit(Str("-"))), Star(Ws), Lit(Str("topic")), EndOfString>> )
>>

\* feat_pattern = \b(?:feat\.?|ft\.?|with|x)\s+([^()]+?)(?:\s*[\(\[]|$)
\* in three parts: what precedes group 1, group 1, what follows it
FEAT_HEAD ==
    Cat(<<WordBoundary,
          Alt(<<Cat(<<Lit(Str("feat")), Opt(Lit(Str(".")))>>),
                Cat(<<Lit(Str("ft")), Opt(Lit(Str(".")))>>),
                Lit(Str("with")),
                Lit(Str("x"))>>),
          Plus(Ws)>>)
FEAT_GROUP == LazyPlus(NotClass({"(", ")"}))
FEAT_TAIL == Alt(<<Cat(<<Star(Ws), Class({"(", "["})>>), EndOfString>>)

\* ,|\s+&\s+
FEAT_SPLIT == Alt(<<Lit(Str(",")), Cat(<<Plus(Ws), Lit(Str("&")), Plus(Ws)>>)>>)

\* \s*[(\[]\s*$
TRAILING_OPEN == Cat(<<Star(Ws), Class({"(", "["}), Star(Ws), EndOfString>>)

-----------------------------------------------------------------------------
(* TagInference._normalize_for_comparison *)

_normalize_for_comparison(text) ==
    Lower(Strip(CollapseWhitespace(ReplaceUnderscores(text))))

-----------------------------------------------------------------------------
(* TagInference._clean_title *)

\* for pattern in NOISE_PATTERNS: cleaned = re.sub(pattern, '', cleaned)
RECURSIVE RemoveNoise(_, _)
RemoveNoise(s, k) ==
    IF k > Len(NOISE_PATTERNS) THEN s
    ELSE RemoveNoise(re_sub(NOISE_PATTERNS[k], s), k + 1)

\* "Artist - Title" inside the title: the part after the first ' - ' when the
\* part before it is a known artist
MatchesKnownArtist(potential_normalized, known) ==
    \E a \in DOMAIN known :
        /\ known[a] # <<>>
        /\ _normalize_for_comparison(known[a]) = potential_normalized

\* a variant that compares the prefix with the known artists as written
TitlePartExactMatch(s, parts, known) ==
    IF \E a \in DOMAIN known : known[a] # <<>> /\ known[a] = parts[1]
    THEN parts[2] ELSE s

TitlePart(s, parts, known) ==
    IF MatchesKnownArtist(_normalize_for_comparison(parts[1]), known)
    THEN parts[2] ELSE s

StripKnownArtist(s, known) ==
    IF Contains(Str(" - "), s) /\ known # <<>>
    THEN TitlePart(s, SplitOnce(s, Str(" - ")), known)
    ELSE s

\* the match of feat_pattern that starts at i, if any: <<>> or
\* <<[gs, ge, e]>> with group 1 = s[gs..ge-1] and the match ending before e;
\* hs are the ends of the head, ges those of group 1, ts those of the tail
RECURSIVE FeatTryGroup(_, _, _), FeatTryHead(_, _)
FeatTryTail(h, ges, s, ts) ==
    IF ts # <<>>
    THEN <<[gs |-> h, ge |-> Head(ges), e |-> Head(ts)]>>
    ELSE FeatTryGroup(h, Tail(ges), s)

FeatTryGroup(h, ges, s) ==
    IF ges = <<>> THEN <<>>
    ELSE FeatTryTail(h, ges, s, Ends(FEAT_TAIL, s, Head(ges)))

FeatTryNext(hs, s, m) ==
    IF m # <<>> THEN m ELSE FeatTryHead(Tail(hs), s)

FeatTryHead(hs, s) ==
    IF hs = <<>> THEN <<>>
    ELSE FeatTryNext(hs, s,
             FeatTryGroup(Head(hs), Ends(FEAT_GROUP, s, Head(hs)), s))

FeatMatchAt(s, i) == FeatTryHead(Ends(FEAT_HEAD, s, i), s)

\* re.finditer(feat_pattern, s): the matches, each with its start b; i is the
\* start of the next match from p, m the match found there
RECURSIVE FeatMatchesFrom(_, _)
FeatMatchesAt(s, i, m) ==
    <<[b |-> i, gs |-> m[1].gs, ge |-> m[1].ge, e |-> m[1].e]>>
    \o FeatMatchesFrom(s, m[1].e)

FeatMatchesNext(s, i) ==
    IF i = 0 THEN <<>> ELSE FeatMatchesAt(s, i, FeatMatchAt(s, i))

FeatMatchesFrom(s, p) ==
    IF p > Len(s) THEN <<>>
    ELSE FeatMatchesNext(s, FirstOf({i \in p..Len(s) : FeatMatchAt(s, i) # <<>>}))

\* [f.strip() for f in feat_artists if f.strip()]
NonEmpty(stripped) == IF stripped # <<>> THEN <<stripped>> ELSE <<>>

RECURSIVE StripNonEmpty(_)
StripNonEmpty(parts) ==
    IF parts = <<>> THEN <<>>
    ELSE NonEmpty(Strip(Head(parts))) \o StripNonEmpty(Tail(parts))

\* featured_artists.extend(...) over the matches, no de-duplication
RECURSIVE FeaturedOf(_, _)
FeaturedOf(s, ms) ==
    IF ms = <<>> THEN <<>>
    ELSE StripNonEmpty(re_split(FEAT_SPLIT,
                           Strip(SubSeq(s, Head(ms).gs, Head(ms).ge - 1))))
         \o FeaturedOf(s, Tail(ms))

\* re.sub(feat_pattern, '', s) given the matches of feat_pattern in s
RECURSIVE RemoveMatches(_, _, _)
RemoveMatches(s, ms, p) ==
    IF ms = <<>> THEN SubSeq(s, p, Len(s))
    ELSE SubSeq(s, p, Head(ms).b - 1) \o RemoveMatches(s, Tail(ms), Head(ms).e)

\* whitespace collapsed, stripped, a trailing open bracket removed
TidyTitle(feat_free) ==
    re_sub(TRAILING_OPEN, Strip(CollapseWhitespace(feat_free)))

\* the final validation: fewer than 2 characters left -> the original
FinalValidationNoLength(original, c, featured) ==
    IF c = <<>>
    THEN [title |-> original, featured |-> <<>>, cleaned |-> c]
    ELSE [title |-> c, featured |-> featured, cleaned |-> c]

FinalValidation(original, c, featured) ==
    IF c = <<>> \/ Len(c) < 2
    THEN [title |-> original, featured |-> <<>>, cleaned |-> c]
    ELSE [title |-> c, featured |-> featured, cleaned |-> c]

\* the steps of _clean_title after the known artist prefix is cut: `titled`
\* is `cleaned` at that point, `matches` the matches of feat_pattern in it
RemoveFeatures(original, titled, matches) ==
    FinalValidation(original, TidyTitle(RemoveMatches(titled, matches, 1)),
                    FeaturedOf(titled, matches))

ExtractFeatures(original, titled) ==
    RemoveFeatures(original, titled, FeatMatchesFrom(titled, 1))

\* returns (title, featured); `cleaned` is the local before the final
\* validation, kept for inspection
_clean_title(title, known) ==
    IF title = <<>> THEN [title |-> <<>>, featured |-> <<>>, cleaned |-> <<>>]
    ELSE ExtractFeatures(title, StripKnownArtist(RemoveNoise(title, 1), known))

-----------------------------------------------------------------------------
(* Optional values and dicts *)

None == <<>>
Some(v) == <<v>>

\* Python's None as the value of a dict field; a str is a sequence of
\* one-character strings and so never equal to it
NoneValue == <<"None">>

\* truth value of an optional str: None and '' are falsy
Truthy(opt) == opt # None /\ opt[1] # <<>>

\* d.get(key, default) for a dict modelled as a function on its keys
Get(d, key, default) == IF key \in DOMAIN d THEN d[key] ELSE default

EmptyDict == [k \in {} |-> <<>>]

-----------------------------------------------------------------------------
(* os.path *)

\* index of the last occurrence of character c in s, 0 if none
LastIndexOf(c, s) ==
    IF \E i \in DOMAIN s : s[i] = c
    THEN CHOOSE i \in DOMAIN s : s[i] = c /\ \A j \in (i + 1)..Len(s) : s[j] # c
    ELSE 0

\* os.path.basename(path)
Basename(path) == SubSeq(path, LastIndexOf("/", path) + 1, Len(path))

\* os.path.splitext(name)[0]: cut at the last dot, unless that dot only
\* follows leading dots of the last component
CutAtDot(name, sep, dot) ==
    IF dot > sep /\ \E j \in (sep + 1)..(dot - 1) : name[j] # "."
    THEN SubSeq(name, 1, dot - 1)
    ELSE name

SplitextRoot(name) ==
    CutAtDot(name, LastIndexOf("/", name), LastIndexOf(".", name))

\* os.path.splitext(name)[1].lower()
SplitextExt(name) == Lower(SubSeq(name, Len(SplitextRoot(name)) + 1, Len(name)))

-----------------------------------------------------------------------------
(* TagInference.analyze_folder, step 1: one entry of filename_data *)

\* an entry whose file name holds a separator, from the two parts around it
SeparatedEntry(path, filename, parts, metadata) ==
    [path |-> path, filename |-> filename,
     left |-> Some(Strip(parts[1])), right |-> Strip(parts[2]),
     metadata |-> metadata]

EntryOf(path, filename, metadata) ==
    IF Contains(Str(" - "), filename) \/ Contains(Str("-"), filename)
    THEN SeparatedEntry(path, filename,
             IF Contains(Str(" - "), filename) THEN SplitOnce(filename, Str(" - "))
             ELSE SplitOnce(filename, Str("-")),
             metadata)
    ELSE [path |-> path, filename |-> filename,
          left |-> None, right |-> filename, metadata |-> metadata]

Entry(path, metadata) == EntryOf(path, SplitextRoot(Basename(path)), metadata)

-----------------------------------------------------------------------------
(* TagInference._determine_artist_side *)

THRESHOLD_NUM == 3
THRESHOLD_DEN == 10

\* counter[key] += 1
Increment(counter, key) ==
    IF key \in DOMAIN counter
    THEN [counter EXCEPT ![key] = @ + 1]
    ELSE [k \in DOMAIN counter \cup {key} |->
             IF k = key THEN 1 ELSE counter[k]]

\* item['x'].split(',')[0].strip(), normalized
LeadToken(text) == _normalize_for_comparison(Strip(Split(text, Str(","))[1]))

\* the loop over filename_data: only items with a truthy left are counted
Tallied(it) == Truthy(it.left)

RECURSIVE Tally(_, _, _, _)
Tally(data, k, left_counter, right_counter) ==
    IF k > Len(data) THEN [left |-> left_counter, right |-> right_counter]
    ELSE IF Tallied(data[k])
         THEN Tally(data, k + 1,
                    Increment(left_counter, LeadToken(data[k].left[1])),
                    Increment(right_counter, LeadToken(data[k].right)))
         ELSE Tally(data, k + 1, left_counter, right_counter)

\* counter.most_common(1)[0][1] if the counter is not empty, else 0
MostCommonCount(counter) ==
    IF DOMAIN counter = {} THEN 0
    ELSE CHOOSE n \in Range(counter) : \A m \in Range(counter) : m <= n

\* total_files = len(filename_data)
TotalTallied(data) == Cardinality({k \in DOMAIN data : Tallied(data[k])})

TotalFiles(data) == Len(data)

\* count / total_files >= 0.3, in exact arithmetic
ReachesThreshold(count, total_files) ==
    count * THRESHOLD_DEN >= THRESHOLD_NUM * total_files

\* the decision, from the highest count of each side
DecideSide(left_count, right_count, total_files) ==
    IF ReachesThreshold(left_count, total_files) /\ left_count > right_count
    THEN "left"
    ELSE IF ReachesThreshold(right_count, total_files)
            /\ right_count > left_count
    THEN "right"
    ELSE "left"

SideOfCounters(counters, total_files) ==
    IF DOMAIN counters.left = {} /\ DOMAIN counters.right = {}
    THEN "unknown"
    ELSE DecideSide(MostCommonCount(counters.left),
                    MostCommonCount(counters.right), total_files)

\* counter.most_common(1): [] for an empty counter, else one (token, count)
\* pair with the highest count; which of several tied tokens comes first is
\* left open here
MostCommonPicks(counter) ==
    IF DOMAIN counter = {} THEN {<<>>}
    ELSE {<<<<k, counter[k]>>>> : k \in {t \in DOMAIN counter :
                                         counter[t] = MostCommonCount(counter)}}

\* a score that would look at the token instead of its count
PickedTokenLength(most_common) ==
    IF most_common # <<>> THEN Len(most_common[1][1]) ELSE 0

\* most_common[0][1] if most_common else 0
PickedCount(most_common) ==
    IF most_common # <<>> THEN most_common[1][2] ELSE 0

\* the decision given the two most_common(1) lists
SideOfPicks(counters, most_common_left, most_common_right, total_files) ==
    IF DOMAIN counters.left = {} /\ DOMAIN counters.right = {}
    THEN "unknown"
    ELSE DecideSide(PickedCount(most_common_left),
                    PickedCount(most_common_right), total_files)

_determine_artist_side(data) ==
    IF data = <<>> THEN "unknown"
    ELSE SideOfCounters(Tally(data, 1, EmptyDict, EmptyDict), TotalFiles(data))

-----------------------------------------------------------------------------
(* TagInference._parse_artists *)

JUNK_PART_LENGTH == 50

PARSE_JUNK_INDICATORS ==
    {Str("recorded at"), Str("mixed by"), Str("endorsed by"), Str("http://"), Str("https://")}

\* [p.strip() for p in s.split(',')]
RECURSIVE StripAll(_)
StripAll(parts) ==
    IF parts = <<>> THEN <<>> ELSE <<Strip(Head(parts))>> \o StripAll(Tail(parts))

\* the parts before the first sign of junk
RECURSIVE ValidParts(_)
ValidParts(parts) ==
    IF parts = <<>> THEN <<>>
    ELSE IF \/ Len(Head(parts)) > JUNK_PART_LENGTH
            \/ \E ind \in PARSE_JUNK_INDICATORS : Contains(ind, Lower(Head(parts)))
         THEN <<>>
         ELSE <<Head(parts)>> \o ValidParts(Tail(parts))

\* \s+&\s+
AND_SPLIT == Cat(<<Plus(Ws), Lit(Str("&")), Plus(Ws)>>)

\* "A & B & C": all but the last part are the main artist
MainAndFeature(main_artist, last_part) ==
    [main |-> main_artist, all_artists |-> <<main_artist, last_part>>]

\* a rule that would also split a duo
AmpersandPartsSplitsDuo(artist_string, and_parts) ==
    IF Len(and_parts) > 1
    THEN MainAndFeature(Join(SubSeq(and_parts, 1, Len(and_parts) - 1), Str(" & ")),
                        and_parts[Len(and_parts)])
    ELSE [main |-> Strip(artist_string),
          all_artists |-> <<Strip(artist_string)>>]

AmpersandParts(artist_string, and_parts) ==
    IF Len(and_parts) > 2
    THEN MainAndFeature(Join(SubSeq(and_parts, 1, Len(and_parts) - 1), Str(" & ")),
                        and_parts[Len(and_parts)])
    ELSE [main |-> Strip(artist_string),
          all_artists |-> <<Strip(artist_string)>>]

AmpersandOrSingle(artist_string) ==
    AmpersandParts(artist_string, re_split(AND_SPLIT, artist_string))

\* a comma rule that would return even when the filter kept nothing
CommaPartsNoFallback(artist_string, valid_parts) ==
    [main |-> IF valid_parts # <<>> THEN valid_parts[1] ELSE <<>>,
     all_artists |-> valid_parts]

CommaParts(artist_string, valid_parts) ==
    IF valid_parts # <<>>
    THEN [main |-> valid_parts[1], all_artists |-> valid_parts]
    ELSE AmpersandOrSingle(artist_string)

\* a parser that would try the ampersand chain before the commas
ParseAmpersandFirst(artist_string) ==
    IF artist_string = <<>> THEN [main |-> <<>>, all_artists |-> <<>>]
    ELSE IF Len(re_split(AND_SPLIT, artist_string)) > 2
         THEN AmpersandOrSingle(artist_string)
         ELSE IF Contains(Str(","), artist_string)
              THEN CommaParts(artist_string,
                              ValidParts(StripAll(Split(artist_string, Str(",")))))
              ELSE AmpersandOrSingle(artist_string)

_parse_artists(artist_string) ==
    IF artist_string = <<>> THEN [main |-> <<>>, all_artists |-> <<>>]
    ELSE IF Contains(Str(","), artist_string)
         THEN CommaParts(artist_string,
                         ValidParts(StripAll(Split(artist_string, Str(",")))))
         ELSE AmpersandOrSingle(artist_string)

-----------------------------------------------------------------------------
(* TagInference._clean_junky_artist *)

JUNKY_LENGTH == 100
CLEAN_PART_LENGTH == 50

JUNKY_INDICATORS ==
    {Str("recorded at"), Str("mixed by"), Str("mastered by"), Str("produced by"),
     Str("endorsed by"), Str("apollo twin"), Str("pro tools"), Str("accompanied by"),
     Str("http://"), Str("https://")}

\* parts before the first junk indicator that are short enough
RECURSIVE CleanParts(_)
CleanParts(parts) ==
    IF parts = <<>> THEN <<>>
    ELSE IF \E ind \in JUNKY_INDICATORS : Contains(ind, Lower(Head(parts)))
         THEN <<>>
         ELSE (IF Len(Head(parts)) < CLEAN_PART_LENGTH
               THEN <<Head(parts)>> ELSE <<>>) \o CleanParts(Tail(parts))

JoinedOr(clean_parts, artist_string) ==
    IF clean_parts # <<>> THEN Join(clean_parts, Str(", ")) ELSE artist_string

_clean_junky_artist(artist_string) ==
    IF artist_string = <<>> \/ Len(artist_string) < JUNKY_LENGTH
    THEN artist_string
    ELSE JoinedOr(CleanParts(StripAll(Split(artist_string, Str(",")))),
                  artist_string)

-----------------------------------------------------------------------------
(* TagInference._process_file *)

\* all_featured after the loop over title_features: a feature is appended
\* unless an entry of the list so far has the same normalized form
AlreadyListed(all_featured, feat_normalized) ==
    \E a \in DOMAIN all_featured :
        _normalize_for_comparison(all_featured[a]) = feat_normalized

RECURSIVE MergeFeatures(_, _)
MergeFeatures(all_featured, title_features) ==
    IF title_features = <<>> THEN all_featured
    ELSE IF AlreadyListed(all_featured,
                          _normalize_for_comparison(Head(title_features)))
         THEN MergeFeatures(all_featured, Tail(title_features))
         ELSE MergeFeatures(Append(all_featured, Head(title_features)),
                            Tail(title_features))

\* raw_artist and raw_title as the policy picks them from the entry
RawFields(it, side) ==
    IF side = "left" /\ Truthy(it.left)
    THEN [artist |-> it.left[1], title |-> it.right]
    ELSE IF side = "right" /\ it.right # <<>>
    THEN [artist |-> it.right,
          title |-> IF Truthy(it.left) THEN it.left[1] ELSE it.right]
    ELSE [artist |-> Get(it.metadata, "artist", <<>>),
          title |-> IF it.right # <<>> THEN it.right ELSE it.filename]

\* the existing artist tag, cleaned, replaces an empty raw_artist
JunkyFallback(cleaned_existing, raw_artist) ==
    IF cleaned_existing # <<>> /\ raw_artist = <<>>
    THEN cleaned_existing ELSE raw_artist

\* if existing_meta.get('artist'): None and '' are falsy
ExistingFallback(existing_artist, raw_artist) ==
    IF existing_artist # <<>> /\ existing_artist # NoneValue
    THEN JunkyFallback(_clean_junky_artist(existing_artist), raw_artist)
    ELSE raw_artist

\* composer = ', '.join(all_featured) if there are several, else ''
Composer(all_featured) ==
    IF Len(all_featured) > 1 THEN Join(all_featured, Str(", ")) ELSE <<>>

\* the frame of the finished call: what it returns ('artist', 'title',
\* 'composer') and its locals, kept for inspection
Frame(raw_artist, raw_title, artist_info, title_info, all_featured) ==
    [artist |-> artist_info.main, title |-> title_info.title,
     composer |-> Composer(all_featured),
     raw_artist |-> raw_artist, raw_title |-> raw_title,
     all_artists |-> artist_info.all_artists,
     title_features |-> title_info.featured,
     all_featured |-> all_featured]

Combine(raw_artist, raw_title, artist_info, title_info) ==
    Frame(raw_artist, raw_title, artist_info, title_info,
          MergeFeatures(artist_info.all_artists, title_info.featured))

CleanWithArtists(raw_artist, raw_title, artist_info) ==
    Combine(raw_artist, raw_title, artist_info,
            _clean_title(raw_title, artist_info.all_artists))

ParseAndClean(raw_artist, raw_title) ==
    CleanWithArtists(raw_artist, raw_title, _parse_artists(raw_artist))

\* `raw` holds raw_artist and raw_title as first assigned (the candidates);
\* they are kept in the frame next to the later locals
ProcessRaw(it, raw) ==
    [candidate_artist |-> raw.artist, candidate_title |-> raw.title]
    @@ ParseAndClean(ExistingFallback(Get(it.metadata, "artist", <<>>),
                                      Strip(ReplaceUnderscores(raw.artist))),
                     Strip(ReplaceUnderscores(raw.title)))

\* raw_artist.replace('_', ' ') raises AttributeError when raw_artist, taken
\* from existing_meta.get('artist', ''), is None
ProcessFileRaises(it, side) == RawFields(it, side).artist = NoneValue

_process_file(it, side) == ProcessRaw(it, RawFields(it, side))

\* the dict _process_file returns
Returned(r) == [artist |-> r.artist, title |-> r.title, composer |-> r.composer]

-----------------------------------------------------------------------------
(* TagInference.clean_filename *)

\* re.sub(r'\s+', ' ', name).strip(), then the trailing open bracket removed
TidyName(name) == re_sub(TRAILING_OPEN, Strip(CollapseWhitespace(name)))

\* return name if name else os.path.splitext(filename)[0]
NameOrRoot(name, root) == IF name # <<>> THEN name ELSE root

\* the local `name` before the return
StrippedName(fname) ==
    TidyName(RemoveNoise(ReplaceUnderscores(SplitextRoot(fname)), 1))

clean_filename(fname) == NameOrRoot(StrippedName(fname), SplitextRoot(fname))

-----------------------------------------------------------------------------
(* MetadataManager.  The tags stored in a file are a dict from tag key to  *)
(* str holding the keys that are present, under the names easy mode gives   *)
(* them (title, artist, album, albumartist, comment, tracknumber,           *)
(* discnumber, date, genre, composer, featuring).                           *)

\* the element of a one-element set; a value bound this way is computed once
The(S) == CHOOSE x \in S : TRUE

\* dict operations
Put(d, key, v) ==
    The({[k \in DOMAIN x \cup {key} |-> IF k = key THEN v ELSE x[k]] : x \in {d}})
Pop(d, key) == The({[k \in DOMAIN x \ {key} |-> x[k]] : x \in {d}})

\* int(text): a text of decimal digits with an optional sign has a value,
\* every other text raises ValueError
DIGITS == <<"0", "1", "2", "3", "4", "5", "6", "7", "8", "9">>
DigitValue(c) == (CHOOSE n \in 1..10 : DIGITS[n] = c) - 1

Unsigned(s) == IF s # <<>> /\ s[1] \in {"+", "-"} THEN Tail(s) ELSE s

AllDigits(s) == s # <<>> /\ \A i \in 1..Len(s) : s[i] \in DigitChars

IsIntText(s) == AllDigits(Unsigned(Strip(s)))

RECURSIVE DigitsValue(_, _, _)
DigitsValue(s, k, acc) ==
    IF k > Len(s) THEN acc ELSE DigitsValue(s, k + 1, 10 * acc + DigitValue(s[k]))

SignedValue(s, body) ==
    IF s[1] = "-" THEN 0 - DigitsValue(body, 1, 0) ELSE DigitsValue(body, 1, 0)

int(s) == SignedValue(Strip(s), Unsigned(Strip(s)))

\* str(n) of a natural number
RECURSIVE NatText(_)
NatText(n) == IF n < 10 THEN <<DIGITS[n + 1]>>
              ELSE NatText(n \div 10) \o <<DIGITS[(n % 10) + 1]>>

\* raw.split('/')[0].strip() if '/' in raw else raw.strip()
NumberPart(raw) ==
    IF Contains(<<"/">>, raw) THEN Strip(SubSeq(raw, 1, Find(<<"/">>, raw) - 1))
    ELSE Strip(raw)

\* the track and disc fields: the number before '/', kept when it is an
\* integer from 1 to `hi` outside `garbage`, '' in every other case
KeptNumber(num, garbage, hi) ==
    IF ~IsIntText(num) THEN <<>>
    ELSE IF int(num) \in garbage THEN <<>>
    ELSE IF 1 <= int(num) /\ int(num) <= hi THEN num
    ELSE <<>>

NumberField(raw, garbage, hi) ==
    IF raw = <<>> THEN <<>> ELSE KeptNumber(NumberPart(raw), garbage, hi)

\* round(audio.info.length, 2) of an audio file
LENGTH == Str("3.5")

\* read_metadata: every field is read, '' when the tag is absent
READ_FIELDS == <<"title", "artist", "album", "album_artist", "comment",
                 "track", "disc", "year", "genre", "composer", "length">>

\* the easy-mode tag key a field is read from
EasyKey(f) ==
    CASE f = "album_artist" -> "albumartist"
      [] f = "track" -> "tracknumber"
      [] f = "disc" -> "discnumber"
      [] f = "year" -> "date"
      [] OTHER -> f

ReadField(tags, f) ==
    CASE f = "track" -> NumberField(Get(tags, "tracknumber", <<>>), {63}, 999)
      [] f = "disc" -> NumberField(Get(tags, "discnumber", <<>>), {}, 99)
      [] f = "length" -> LENGTH
      [] OTHER -> Get(tags, EasyKey(f), <<>>)

read_metadata(tags) ==
    [f \in Range(READ_FIELDS) |-> ReadField(tags, f)]

\* field_map of _write_mp3
MP3_FIELDS == <<"title", "artist", "album", "album_artist", "track", "disc",
                "year", "genre", "composer">>

\* one round of "for key, atom in field_map.items()"
WriteAtom(tags, metadata, key, atom, allow_blanks) ==
    IF key \notin DOMAIN metadata THEN tags          \* val is None: skip
    ELSE IF metadata[key] # <<>> THEN Put(tags, atom, metadata[key])
    ELSE IF allow_blanks /\ atom \in DOMAIN tags THEN Pop(tags, atom)
    ELSE tags

\* a round whose tag key is the metadata key
WriteField(tags, metadata, key, allow_blanks) ==
    WriteAtom(tags, metadata, key, key, allow_blanks)

RECURSIVE WriteFields(_, _, _, _, _)
WriteFields(tags, metadata, fields, k, allow_blanks) ==
    IF k > Len(fields) THEN tags
    ELSE The({WriteFields(t, metadata, fields, k + 1, allow_blanks) :
                 t \in {WriteAtom(tags, metadata, fields[k], EasyKey(fields[k]),
                                  allow_blanks)}})

\* the COMM and TXXX:FEATURING frames: cleared when the key is in metadata,
\* added again when the value is not blank
WriteFrame(tags, metadata, key) ==
    IF key \notin DOMAIN metadata THEN tags
    ELSE IF metadata[key] # <<>> THEN Put(tags, key, metadata[key])
    ELSE Pop(tags, key)

_write_mp3(tags, metadata, allow_blanks) ==
    WriteFrame(
        WriteFrame(WriteFields(tags, metadata, MP3_FIELDS, 1, allow_blanks),
                   metadata, "comment"),
        metadata, "featuring")

\* atom_map of _write_m4a
M4A_FIELDS == <<"title", "artist", "album", "album_artist", "genre", "year",
                "comment", "composer">>

\* audio["trkn"] = [(int(a), int(b))] or [(int(t), 0)], as easy mode reads it
PairText(a, b) == IF b = 0 THEN NatText(a) ELSE NatText(a) \o <<"/">> \o NatText(b)

NumberPair(t) ==
    IF Contains(<<"/">>, t)
    THEN <<SubSeq(t, 1, Find(<<"/">>, t) - 1), SubSeq(t, Find(<<"/">>, t) + 1, Len(t))>>
    ELSE <<t, Str("0")>>

PairIsInt(pair) ==
    /\ IsIntText(pair[1]) /\ IsIntText(pair[2])
    /\ int(pair[1]) >= 0 /\ int(pair[2]) >= 0

\* the track and disc atoms of _write_m4a: written when the value parses,
\* skipped when it does not, cleared when it is blank
WritePair(tags, pair, atom) ==
    IF PairIsInt(pair) THEN Put(tags, atom, PairText(int(pair[1]), int(pair[2])))
    ELSE tags

WriteNumber(tags, metadata, key, allow_blanks) ==
    IF key \notin DOMAIN metadata THEN tags
    ELSE IF Strip(metadata[key]) # <<>>
    THEN WritePair(tags, NumberPair(Strip(metadata[key])), EasyKey(key))
    ELSE IF allow_blanks /\ EasyKey(key) \in DOMAIN tags
    THEN Pop(tags, EasyKey(key))
    ELSE tags

_write_m4a(tags, metadata, allow_blanks) ==
    WriteNumber(
        WriteNumber(
            WriteField(WriteFields(tags, metadata, M4A_FIELDS, 1, allow_blanks),
                       metadata, "featuring", allow_blanks),
            metadata, "track", allow_blanks),
        metadata, "disc", allow_blanks)

\* _write_flac and _write_generic: "for key, val in metadata.items()"; a
\* key that is not in metadata is not visited, and the tag key is the
\* metadata key
RECURSIVE WriteItems(_, _, _, _)
WriteItem(tags, metadata, keys, key, allow_blanks) ==
    The({WriteItems(t, metadata, keys \ {key}, allow_blanks) :
            t \in {WriteField(tags, metadata, key, allow_blanks)}})

WriteItems(tags, metadata, keys, allow_blanks) ==
    IF keys = {} THEN tags
    ELSE WriteItem(tags, metadata, keys, CHOOSE k \in keys : TRUE, allow_blanks)

_write_flac(tags, metadata, allow_blanks) ==
    WriteItems(tags, metadata, DOMAIN metadata, allow_blanks)

_write_generic(tags, metadata, allow_blanks) ==
    WriteItems(tags, metadata, DOMAIN metadata, allow_blanks)

\* write_metadata(file_path, metadata, cover_data=None, allow_blanks=True):
\* the tags of the file after a write that succeeds
WriteByExtension(ext, tags, metadata, allow_blanks) ==
    IF ext = Str(".mp3") THEN _write_mp3(tags, metadata, allow_blanks)
    ELSE IF ext = Str(".flac") THEN _write_flac(tags, metadata, allow_blanks)
    ELSE IF ext = Str(".m4a") THEN _write_m4a(tags, metadata, allow_blanks)
    ELSE _write_generic(tags, metadata, allow_blanks)

write_metadata(path, tags, metadata, allow_blanks) ==
    The({WriteByExtension(SplitextExt(path), t, m, allow_blanks) :
            t \in {tags}, m \in {metadata}})

-----------------------------------------------------------------------------
(* TagInference.analyze_folder and batch_clean_files *)

\* metadata = metadata_manager.read_metadata(path) or {}, and the entry
ReadEntry(d, path) == Entry(path, read_metadata(d[path]))

\* entries that would share the metadata dict of the first entry
LoopItemSharedTags(data, k) == [data[k] EXCEPT !.metadata = data[1].metadata]

\* for item in filename_data: the item of round k
LoopItem(data, k) == data[k]

\* a loop that would decide the side again from the entries seen so far
LoopSideRecomputed(data, side, k) == _determine_artist_side(SubSeq(data, 1, k))

\* the artist_side passed to _process_file in round k
LoopSide(data, side, k) == side[1]

\* step 1: filename_data
RECURSIVE ExtractEntries(_, _)
ExtractEntries(file_paths, d) ==
    IF file_paths = <<>> THEN <<>>
    ELSE <<Entry(Head(file_paths), read_metadata(d[Head(file_paths)]))>>
         \o ExtractEntries(Tail(file_paths), d)

\* step 3: results[item['path']] = _process_file(item, artist_side, ...);
\* a later item with the same path replaces an earlier one
RECURSIVE ProcessEntries(_, _, _, _)
ProcessEntries(data, k, side, results) ==
    IF k > Len(data) THEN results
    ELSE ProcessEntries(data, k + 1, side,
             Put(results, data[k].path, Returned(_process_file(data[k], side))))

\* the locals of the finished call; `results` is what it returns
ProcessWithSide(data, side) ==
    [filename_data |-> data, artist_side |-> Some(side),
     results |-> ProcessEntries(data, 1, side, EmptyDict)]

AnalyzeEntries(data) == ProcessWithSide(data, _determine_artist_side(data))

analyze_folder(file_paths, d) ==
    IF file_paths = <<>>
    THEN [filename_data |-> <<>>, artist_side |-> None, results |-> EmptyDict]
    ELSE AnalyzeEntries(ExtractEntries(file_paths, d))

batch_clean_files(file_paths, d) == analyze_folder(file_paths, d)

-----------------------------------------------------------------------------
(* TagInference.apply_cleaned_metadata: the body of the loop for one path *)

\* an update that would copy the field of the record whatever it holds
SetAlways(existing, clean_meta, key) ==
    Put(existing, key, Get(clean_meta, key, <<>>))

\* if clean_meta.get(key): existing[key] = clean_meta[key]
SetIfContent(existing, clean_meta, key) ==
    IF Get(clean_meta, key, <<>>) # <<>>
    THEN Put(existing, key, clean_meta[key]) ELSE existing

\* composer: set if there is content, else existing.pop('composer', None)
SetOrPopComposer(existing, clean_meta) ==
    IF Get(clean_meta, "composer", <<>>) # <<>>
    THEN Put(existing, "composer", clean_meta["composer"])
    ELSE Pop(existing, "composer")

\* `existing` after the three updates
UpdatedMetadata(existing, clean_meta) ==
    SetOrPopComposer(
        SetIfContent(SetIfContent(existing, clean_meta, "artist"),
                     clean_meta, "title"),
        clean_meta)

\* what write_metadata can do in one call
WRITE_OUTCOMES == {"true", "false", "raise"}


-----------------------------------------------------------------------------
(* MainWindow.clean_title (ui/main_window.py) *)

LazyStar(p) == Alt(<<Cat(<<>>), LazyPlus(p)>>)     \* p*?
AnyChar == NotClass({"\n"})                          \* .

\* a pattern with one group: head(group)tail
Grouped(head, group, tail) == [head |-> head, group |-> group, tail |-> tail]

\* the match of a grouped pattern that starts at i, if any: <<>> or
\* <<[gs, ge, e]>> with group 1 = s[gs..ge-1] and the match ending before e
RECURSIVE GroupTryGroup(_, _, _, _), GroupTryHead(_, _, _)
GroupTryTail(pat, h, ges, s, ts) ==
    IF ts # <<>>
    THEN <<[gs |-> h, ge |-> Head(ges), e |-> Head(ts)]>>
    ELSE GroupTryGroup(pat, h, Tail(ges), s)

GroupTryGroup(pat, h, ges, s) ==
    IF ges = <<>> THEN <<>>
    ELSE GroupTryTail(pat, h, ges, s, Ends(pat.tail, s, Head(ges)))

GroupTryNext(pat, hs, s, m) ==
    IF m # <<>> THEN m ELSE GroupTryHead(pat, Tail(hs), s)

GroupTryHead(pat, hs, s) ==
    IF hs = <<>> THEN <<>>
    ELSE GroupTryNext(pat, hs, s,
             GroupTryGroup(pat, Head(hs), Ends(pat.group, s, Head(hs)), s))

GroupMatchAt(pat, s, i) == GroupTryHead(pat, Ends(pat.head, s, i), s)

\* re.findall(pattern, s) for a pattern with one group: the texts of group 1
RECURSIVE FindallFrom(_, _, _)
FindallAt(pat, s, m) ==
    <<SubSeq(s, m[1].gs, m[1].ge - 1)>> \o FindallFrom(pat, s, m[1].e)

FindallNext(pat, s, i) ==
    IF i = 0 THEN <<>> ELSE FindallAt(pat, s, GroupMatchAt(pat, s, i))

FindallFrom(pat, s, p) ==
    IF p > Len(s) THEN <<>>
    ELSE FindallNext(pat, s,
             FirstOf({i \in p..Len(s) : GroupMatchAt(pat, s, i) # <<>>}))

re_findall(pat, s) == FindallFrom(pat, s, 1)

\* r'[\(\[](?:ft\.?|feat\.?)\s+(.*?)[\)\]]'
BRACKETED_FT ==
    Grouped(Cat(<<Class({"(", "["}),
                  Alt(<<Cat(<<Lit(Str("ft")), Opt(Lit(Str(".")))>>),
                        Cat(<<Lit(Str("feat")), Opt(Lit(Str(".")))>>)>>),
                  Plus(Ws)>>),
            LazyStar(AnyChar),
            Class({")", "]"}))

\* r',|&| and '
FT_SEPARATORS == Alt(<<Lit(Str(",")), Lit(Str("&")), Lit(Str(" and "))>>)

\* rf'{re.escape(artist)}\s*(?:&|and)\s+([^-\(\[\|]+)'
ArtistAnd(artist) ==
    Grouped(Cat(<<Lit(Lower(artist)), Star(Ws),
                  Alt(<<Lit(Str("&")), Lit(Str("and"))>>), Plus(Ws)>>),
            Plus(NotClass({"-", "(", "[", "|"})),
            Cat(<<>>))

\* the names of the bracketed markers, split on the separators
RECURSIVE BracketedFeatured(_)
BracketedFeatured(ms) ==
    IF ms = <<>> THEN <<>>
    ELSE StripNonEmpty(re_split(FT_SEPARATORS, Head(ms)))
         \o BracketedFeatured(Tail(ms))

\* "Artist, FeaturedArtist - Title": the names after the first comma of the
\* text before ' - '
BeforeDash(title) == Split(title, Str(" - "))[1]

BeforeDashFeatured(title, artist) ==
    IF artist # <<>> /\ Contains(Str(" - "), title)
       /\ Contains(Str(","), BeforeDash(title))
    THEN StripNonEmpty(Tail(Split(BeforeDash(title), Str(","))))
    ELSE <<>>

\* "Artist & FeaturedArtist" or "Artist and FeaturedArtist"
ArtistAndFeatured(title, artist) ==
    IF artist # <<>> THEN StripAll(re_findall(ArtistAnd(artist), title))
    ELSE <<>>

\* ft_artists before the duplicates are removed
FtArtists(title, artist) ==
    BracketedFeatured(re_findall(BRACKETED_FT, title))
    \o BeforeDashFeatured(title, artist)
    \o ArtistAndFeatured(title, artist)

\* UNWANTED_PATTERNS (utils/__init__.py): r'\[.*?official.*?\]' and so on,
\* each phrase in square and then in round brackets
UNWANTED_PHRASES ==
    <<<<Lit(Str("official"))>>,
      <<Lit(Str("music")), Plus(Ws), Lit(Str("video"))>>,
      <<Lit(Str("audio"))>>,
      <<Lit(Str("lyrics"))>>,
      <<Lit(Str("explicit"))>>,
      <<Lit(Str("clean"))>>,
      <<Lit(Str("radio")), Plus(Ws), Lit(Str("edit"))>>,
      <<Lit(Str("hd"))>>,
      <<Lit(Str("hq"))>>>>

InBrackets(open, phrase, close) ==
    Cat(<<Lit(<<open>>), LazyStar(AnyChar)>> \o phrase
        \o <<LazyStar(AnyChar), Lit(<<close>>)>>)

RECURSIVE UnwantedFrom(_)
UnwantedFrom(k) ==
    IF k > Len(UNWANTED_PHRASES) THEN <<>>
    ELSE <<InBrackets("[", UNWANTED_PHRASES[k], "]"),
           InBrackets("(", UNWANTED_PHRASES[k], ")")>> \o UnwantedFrom(k + 1)

UNWANTED_PATTERNS == UnwantedFrom(1)

\* for pattern in UNWANTED_PATTERNS: title = re.sub(pattern, '', title)
RECURSIVE RemoveUnwanted(_, _)
RemoveUnwanted(title, k) ==
    IF k > Len(UNWANTED_PATTERNS) THEN title
    ELSE RemoveUnwanted(re_sub(UNWANTED_PATTERNS[k], title), k + 1)

\* rf'^{re.escape(artist)}\s*[,\.\-–—]\s*'; the two long dashes of the class
\* are outside the alphabet of the titles
LEADING_PUNCTUATION == Class({",", ".", "-"})

LeadingArtist(artist) ==
    Cat(<<Lit(Lower(artist)), Star(Ws), LEADING_PUNCTUATION, Star(Ws)>>)

CutLeading(title, ends) ==
    IF ends # <<>> THEN SubSeq(title, Head(ends), Len(title)) ELSE title

RemoveLeadingArtist(title, artist) ==
    CutLeading(title, Ends(LeadingArtist(artist), title, 1))

\* rf'{re.escape(artist)}\s*(?:&|and)\s+[^-\(\[]+'
ArtistAndSomeone(artist) ==
    Cat(<<Lit(Lower(artist)), Star(Ws), Alt(<<Lit(Str("&")), Lit(Str("and"))>>),
          Plus(Ws), Plus(NotClass({"-", "(", "["}))>>)

\* rf'\b{re.escape(artist)}\b'
WholeArtist(artist) == Cat(<<WordBoundary, Lit(Lower(artist)), WordBoundary>>)

\* the three removals of the artist name
RemoveArtist(title, artist) ==
    IF artist = <<>> THEN title
    ELSE re_sub(WholeArtist(artist),
                re_sub(ArtistAndSomeone(artist),
                       RemoveLeadingArtist(title, artist)))

\* s.strip(chars)
RECURSIVE LStripChars(_, _), RStripChars(_, _)
LStripChars(s, cs) ==
    IF s # <<>> /\ Head(s) \in cs THEN LStripChars(Tail(s), cs) ELSE s

RStripChars(s, cs) ==
    IF s # <<>> /\ s[Len(s)] \in cs
    THEN RStripChars(SubSeq(s, 1, Len(s) - 1), cs) ELSE s

\* re.sub(r'\s+', ' ', title).strip(" -_,;:.()[]")
TITLE_STRIP_CHARS == {" ", "-", "_", ",", ";", ":", ".", "(", ")", "[", "]"}

TidiedTitle(title) ==
    RStripChars(LStripChars(CollapseWhitespace(title), TITLE_STRIP_CHARS),
                TITLE_STRIP_CHARS)

\* [c.strip() for c in composer.split(',') if c.strip()] if composer else []
ExistingComposers(composer) ==
    IF composer = <<>> THEN <<>> ELSE StripNonEmpty(Split(composer, Str(",")))

\* list(dict.fromkeys(ft_artists)): first occurrences, in order
RECURSIVE FirstOccurrences(_, _)
FirstOccurrences(names, k) ==
    IF k > Len(names) THEN <<>>
    ELSE (IF \E j \in 1..(k - 1) : names[j] = names[k] THEN <<>>
          ELSE <<names[k]>>) \o FirstOccurrences(names, k + 1)

\* any(ft.lower() == e.lower() for e in existing)
ListedIn(existing, ft) ==
    \E e \in DOMAIN existing : Lower(existing[e]) = Lower(ft)

RECURSIVE AppendNew(_, _)
AppendNew(existing, fts) ==
    IF fts = <<>> THEN existing
    ELSE IF Head(fts) # <<>> /\ ~ListedIn(existing, Head(fts))
    THEN AppendNew(Append(existing, Head(fts)), Tail(fts))
    ELSE AppendNew(existing, Tail(fts))

\* clean_title(title, artist, composer): returns (title, composer)
clean_title(title, artist, composer) ==
    IF title = <<>> THEN [title |-> title, composer |-> composer]
    ELSE [title |-> TidiedTitle(RemoveArtist(RemoveUnwanted(title, 1), artist)),
          composer |-> Join(AppendNew(ExistingComposers(composer),
                                      FirstOccurrences(FtArtists(title, artist), 1)),
                            Str(", "))]
-----------------------------------------------------------------------------
(* Bounds and inputs *)

MaxTitleFragments == 3   \* fragments concatenated into a title
MaxBatch == 7            \* entries in a batch given to _determine_artist_side
MaxFiles == 2            \* files on disk in the preview/apply runs
MaxNames == 4            \* names joined into an artist string
MaxRunFiles == 3         \* file paths given to one run of analyze_folder
MaxNameFragments == 3    \* fragments concatenated into a file name

\* titles are concatenations of these fragments
TITLE_FRAGMENTS ==
    {Str("So"), Str("x"), Str(" (Audio)"), Str(" ("), Str(" feat. Bo"), Str(", bo"), Str("Ar - ")}

RECURSIVE FragmentTitles(_)
FragmentTitles(n) ==
    IF n = 0 THEN {<<>>}
    ELSE LET shorter == FragmentTitles(n - 1)
         IN shorter \cup {t \o f : t \in shorter, f \in TITLE_FRAGMENTS}

\* the documented forms of an explicit feature marker: title So, name Bo
FEATURE_MARKERS ==
    {Str("feat."), Str("ft."), Str("featuring"), Str("FEAT."), Str("Ft."), Str("Featuring")}
BRACKETS == {<<Str(""), Str("")>>, <<Str("("), Str(")")>>, <<Str("["), Str("]")>>}
MarkedTitle(marker, br) ==
    Str("So ") \o br[1] \o marker \o Str(" Bo") \o br[2]
MarkerTitles == {MarkedTitle(m, br) : m \in FEATURE_MARKERS, br \in BRACKETS}

\* one annotation of every kind of junk, each after the base title So
ANNOTATIONS ==
    {Str(" (Official Video)"), Str(" [Official Video]"), Str(" (Official Audio)"),
     Str(" [Official Audio]"), Str(" (Lyric Video)"), Str(" [Lyric Video]"),
     Str(" (Visualizer)"), Str(" [Visualizer]"), Str(" (4K)"), Str(" (HD)"), Str(" [HQ]"),
     Str(" (YouTube)"), Str(" - Topic"), Str(" (Radio Edit)"), Str(" (Explicit)"),
     Str(" (Clean)"), Str(" (1)"), Str(" (prod. by Xy)")}
AnnotatedTitles == {Str("So") \o a : a \in ANNOTATIONS}

\* a bare connector after the title So: the connector, the text N with the
\* names it holds, and what follows N
CONNECTORS == {Str("with"), Str("With"), Str("WITH"), Str("x"), Str("X")}
CONNECTED_NAMES ==
    {[text |-> Str("Bo"), names |-> <<Str("Bo")>>],
     [text |-> Str("Bo, Cy"), names |-> <<Str("Bo"), Str("Cy")>>],
     [text |-> Str("Bo & Cy"), names |-> <<Str("Bo"), Str("Cy")>>]}
CONNECTED_TAILS == {Str(""), Str(" (live)"), Str(" [live]")}
ConnectorTitle(connector, n, tail) ==
    Str("So ") \o connector \o Str(" ") \o n.text \o tail
ConnectorTitles ==
    {ConnectorTitle(c, n, t) : c \in CONNECTORS, n \in CONNECTED_NAMES,
                               t \in CONNECTED_TAILS}

SCENARIO_TITLE == Str("SomeArtist - Song Title (feat. Other Artist)")
SCENARIO_ARTISTS == <<Str("SomeArtist")>>

\* file names of the batches given to _determine_artist_side
SIDE_PATHS ==
    {Str("/m/A_b, c - X.mp3"), Str("/m/d-x, y.mp3"), Str("/m/So.mp3"), Str("/m/-x.mp3")}

\* artist strings are names joined by ', ' or ' & '; the long names have 50
\* and 51 characters
NAME_50 == Str("Orquesta Sinfonica Nacional De La Republica Do Ars")
ARTIST_NAMES == {Str("Ar"), Str("Mixed By Bo"), NAME_50, NAME_50 \o Str("s")}
NAME_JOINS == {Str(", "), Str(" & ")}

RECURSIVE ArtistStrings(_)
ArtistStrings(n) ==
    IF n = 1 THEN ARTIST_NAMES
    ELSE LET shorter == ArtistStrings(n - 1)
         IN shorter \cup {a \o j \o b : a \in shorter, j \in NAME_JOINS,
                                        b \in ARTIST_NAMES}

\* a credits paragraph of 200 characters in the artist tag
CREDITS_PARAGRAPH ==
    Str("The Marías, recorded at Sonic Ranch, mixed by Ar and Bo with an Apollo Twin and Pro Tools, mastered by Cy at the old studio, produced by Di, accompanied by the choir of So, https://example.com/credits")

\* credits of 120 characters whose first junk is not a sign of junk for
\* _parse_artists
STUDIO_CREDITS ==
    Str("The Marias, mastered by Cy at the old studio, produced by Di, recorded at Sonic Ranch with the choir of So in the summer.")

\* file paths given to analyze_folder, the tags all files start with and
\* the tags one file can get between two runs
ANALYZE_PATHS ==
    {Str("/m/Ar - So.mp3"), Str("/m/Bo - So.mp3"), Str("/m/Ar - x.mp3"), Str("/m/So.mp3")}
RETAGS ==
    {EmptyDict,
     [f \in {"artist", "composer"} |-> IF f = "artist" THEN Str("Ex") ELSE Str("Zed")],
     [f \in {"artist"} |-> Str("Cy, Bo")]}

RECURSIVE PathLists(_)
PathLists(n) ==
    IF n = 0 THEN {<<>>}
    ELSE LET shorter == PathLists(n - 1)
         IN shorter \cup {Append(l, p) : l \in shorter, p \in ANALYZE_PATHS}

\* file names given to clean_filename are concatenations of these fragments
NAME_FRAGMENTS ==
    {Str("So"), Str("x"), Str(" (Audio)"), Str("_"), Str("."), Str(" ("), Str(".mp3")}

RECURSIVE FragmentNames(_)
FragmentNames(n) ==
    IF n = 0 THEN {<<>>}
    ELSE LET shorter == FragmentNames(n - 1)
         IN shorter \cup {t \o f : t \in shorter, f \in NAME_FRAGMENTS}

\* files and existing tags given to _process_file
FILE_PATHS ==
    {Str("/m/A, a - So.mp3"), Str("/m/Ar - So feat. Bo.mp3"), Str("/m/So.mp3"),
     Str("/m/Ar & Bo & Cy - So.mp3"), Str("/m/So-Ar.flac"), Str("/m/-So (Audio).mp3"),
     Str("/m/Ar, Bo - Ar - So ft. bo & Cy.m4a"), Str("/m/x.wav"),
     Str("/m/Ar & Bo - So.mp3"), Str("/m/Ar & Bo & Cy & Di - So.mp3"), Str("/m/Ar-.mp3"),
     Str("/m/Romeo Santos & Prince Royce & Dalvin - Debate De 4.mp3")}
FILE_METADATA ==
    {EmptyDict,
     [f \in Range(READ_FIELDS) |-> <<>>],
     [f \in Range(READ_FIELDS) |-> IF f = "artist" THEN Str("Ex, Bo") ELSE <<>>],
     [f \in Range(READ_FIELDS) |->
        IF f = "artist" THEN Str("Ex") ELSE IF f = "composer" THEN Str("Zed") ELSE <<>>],
     [f \in Range(READ_FIELDS) |-> IF f = "artist" THEN NoneValue ELSE <<>>],
     [f \in Range(READ_FIELDS) |-> IF f = "artist" THEN CREDITS_PARAGRAPH ELSE <<>>],
     [f \in Range(READ_FIELDS) |-> IF f = "artist" THEN STUDIO_CREDITS ELSE <<>>]}
POLICIES == {"left", "right", "unknown"}

\* files of the preview/apply runs, and the tags a file can start with
ALL_PATHS == <<Str("/A-So.mp3"), Str("/A, B-So.flac"), Str("/So.m4a"), Str("/B-x.wav")>>
DiskPaths == {ALL_PATHS[i] : i \in 1..(IF MaxFiles < Len(ALL_PATHS) THEN MaxFiles
                                       ELSE Len(ALL_PATHS))}
START_TAGS ==
    {EmptyDict,
     [f \in {"artist", "composer"} |-> IF f = "artist" THEN Str("Ex") ELSE Str("Zed")]}

\* the files of the disk in the order of ALL_PATHS
RECURSIVE PathList(_)
PathList(k) ==
    IF k > Len(ALL_PATHS) \/ k > MaxFiles THEN <<>>
    ELSE <<ALL_PATHS[k]>> \o PathList(k + 1)

\* the files that are on a disk, in the order of ALL_PATHS
RECURSIVE PathsOf(_, _)
PathsOf(d, k) ==
    IF k > Len(ALL_PATHS) THEN <<>>
    ELSE (IF ALL_PATHS[k] \in DOMAIN d THEN <<ALL_PATHS[k]>> ELSE <<>>)
         \o PathsOf(d, k + 1)

-----------------------------------------------------------------------------
(* State machines *)

titleVars == <<title_string, known_artists, cleaned, title_result, second_result>>
fileVars == <<item, policy, record>>
sideVars == <<filename_data, artist_side, second_side>>
runVars == <<disk, cleaned_data, todo, success_count, writes, escaped>>
artistVars == <<artist_arg, parsed_artists, junky_artist>>
nameVars == <<name_arg, cleaned_name, recleaned_name>>
guiVars == <<selection, ui_artist, preview_dialog, tags_at_click>>
moreVars == <<saved_count, guiVars, first_preview>>
extraVars == <<nameVars, moreVars>>

\* the variables of the state machines further down, while they are not run
GuiIdle ==
    /\ selection = <<>> /\ ui_artist = <<>> /\ preview_dialog = "none"
    /\ tags_at_click = EmptyDict

MoreIdle == saved_count = 0 /\ GuiIdle /\ first_preview = None

ExtraIdle ==
    /\ name_arg = <<>> /\ cleaned_name = <<>> /\ recleaned_name = <<>>
    /\ MoreIdle

analyzeVars == <<trace, previous_results, retagged, batch_paths,
                 batch_results, cursor>>

(* _clean_title on a title, then on the title it returned *)

InitTitle ==
    /\ pc = "clean_title"
    /\ \/ title_string \in FragmentTitles(MaxTitleFragments)
          /\ known_artists \in {<<>>, <<Str("ar")>>}
       \/ title_string \in MarkerTitles /\ known_artists = <<>>
       \/ title_string \in AnnotatedTitles /\ known_artists = <<>>
       \/ title_string \in ConnectorTitles /\ known_artists = <<>>
       \/ title_string = SCENARIO_TITLE /\ known_artists = SCENARIO_ARTISTS
    /\ filename_data = <<>> /\ artist_side = None /\ second_side = None
    /\ item = <<>> /\ policy = "" /\ record = <<>>
    /\ cleaned = <<>> /\ title_result = <<>> /\ second_result = <<>>
    /\ disk = EmptyDict /\ cleaned_data = EmptyDict /\ todo = <<>>
    /\ success_count = 0 /\ writes = <<>> /\ escaped = FALSE
    /\ artist_arg = <<>> /\ parsed_artists = <<>> /\ junky_artist = <<>>
    /\ trace = <<>> /\ previous_results = EmptyDict /\ retagged = None
    /\ batch_paths = <<>> /\ batch_results = EmptyDict /\ cursor = 1
    /\ ExtraIdle

\* the pair a call returned
Pair(r) == [title |-> r.title, featured |-> r.featured]

CleanTitleReturns(r) == cleaned' = r.cleaned /\ title_result' = Pair(r)

CleanTitle ==
    /\ pc = "clean_title"
    /\ CleanTitleReturns(_clean_title(title_string, known_artists))
    /\ pc' = "title_cleaned"
    /\ UNCHANGED <<title_string, known_artists, second_result,
                   sideVars, fileVars, runVars,
                   artistVars, analyzeVars, extraVars>>

CleanTitleAgain ==
    /\ pc = "title_cleaned"
    /\ second_result' = Pair(_clean_title(title_result.title, known_artists))
    /\ pc' = "title_cleaned_twice"
    /\ UNCHANGED <<title_string, known_artists, cleaned, title_result,
                   sideVars, fileVars, runVars,
                   artistVars, analyzeVars, extraVars>>

NextTitle == CleanTitle \/ CleanTitleAgain

SpecTitle == InitTitle /\ [][NextTitle]_vars

(* _determine_artist_side on a batch of entries *)

InitSide ==
    /\ pc = "extract"
    /\ filename_data = <<>> /\ artist_side = None /\ second_side = None
    /\ item = <<>> /\ policy = "" /\ record = <<>>
    /\ title_string = <<>> /\ known_artists = <<>> /\ cleaned = <<>>
    /\ title_result = <<>> /\ second_result = <<>>
    /\ disk = EmptyDict /\ cleaned_data = EmptyDict /\ todo = <<>>
    /\ success_count = 0 /\ writes = <<>> /\ escaped = FALSE
    /\ artist_arg = <<>> /\ parsed_artists = <<>> /\ junky_artist = <<>>
    /\ trace = <<>> /\ previous_results = EmptyDict /\ retagged = None
    /\ batch_paths = <<>> /\ batch_results = EmptyDict /\ cursor = 1
    /\ ExtraIdle

\* one round of the loop of step 1
ExtractEntry ==
    /\ pc = "extract"
    /\ Len(filename_data) < MaxBatch
    /\ \E path \in SIDE_PATHS :
          filename_data' = Append(filename_data, Entry(path, EmptyDict))
    /\ UNCHANGED <<pc, artist_side, second_side, titleVars, fileVars, runVars,
                   artistVars, analyzeVars, extraVars>>

\* step 2
DetermineSide ==
    /\ pc = "extract"
    /\ artist_side' = Some(_determine_artist_side(filename_data))
    /\ pc' = "decided"
    /\ UNCHANGED <<filename_data, second_side, titleVars, fileVars, runVars,
                   artistVars, analyzeVars, extraVars>>

\* a second call on the same batch, with any of the tied tokens first
SecondSide(counters) ==
    \E most_common_left \in MostCommonPicks(counters.left),
       most_common_right \in MostCommonPicks(counters.right) :
        second_side' = Some(SideOfPicks(counters, most_common_left,
                                        most_common_right,
                                        TotalFiles(filename_data)))

DetermineSideAgain ==
    /\ pc = "decided"
    /\ IF filename_data = <<>> THEN second_side' = Some("unknown")
       ELSE SecondSide(Tally(filename_data, 1, EmptyDict, EmptyDict))
    /\ pc' = "decided_twice"
    /\ UNCHANGED <<filename_data, artist_side, titleVars, fileVars, runVars,
                   artistVars, analyzeVars, extraVars>>

NextSide == ExtractEntry \/ DetermineSide \/ DetermineSideAgain

SpecSide == InitSide /\ [][NextSide]_vars

(* _process_file on one entry *)

InitFile ==
    /\ pc = "process_file"
    /\ \E path \in FILE_PATHS, metadata \in FILE_METADATA :
          item = Entry(path, metadata)
    /\ policy \in POLICIES
    /\ record = <<>>
    /\ filename_data = <<>> /\ artist_side = None /\ second_side = None
    /\ title_string = <<>> /\ known_artists = <<>> /\ cleaned = <<>>
    /\ title_result = <<>> /\ second_result = <<>>
    /\ disk = EmptyDict /\ cleaned_data = EmptyDict /\ todo = <<>>
    /\ success_count = 0 /\ writes = <<>> /\ escaped = FALSE
    /\ artist_arg = <<>> /\ parsed_artists = <<>> /\ junky_artist = <<>>
    /\ trace = <<>> /\ previous_results = EmptyDict /\ retagged = None
    /\ batch_paths = <<>> /\ batch_results = EmptyDict /\ cursor = 1
    /\ ExtraIdle

ProcessFile ==
    /\ pc = "process_file"
    /\ IF ProcessFileRaises(item, policy)
       THEN record' = record /\ pc' = "file_raised"
       ELSE record' = _process_file(item, policy) /\ pc' = "file_processed"
    /\ UNCHANGED <<item, policy, sideVars, titleVars, runVars,
                   artistVars, analyzeVars, extraVars>>

NextFile == ProcessFile

SpecFile == InitFile /\ [][NextFile]_vars

(* _parse_artists and _clean_junky_artist on an artist string *)

InitArtists ==
    /\ pc = "artists"
    /\ artist_arg \in ArtistStrings(MaxNames) \cup {<<>>, CREDITS_PARAGRAPH}
    /\ parsed_artists = <<>> /\ junky_artist = <<>>
    /\ filename_data = <<>> /\ artist_side = None /\ second_side = None
    /\ item = <<>> /\ policy = "" /\ record = <<>>
    /\ title_string = <<>> /\ known_artists = <<>> /\ cleaned = <<>>
    /\ title_result = <<>> /\ second_result = <<>>
    /\ disk = EmptyDict /\ cleaned_data = EmptyDict /\ todo = <<>>
    /\ success_count = 0 /\ writes = <<>> /\ escaped = FALSE
    /\ trace = <<>> /\ previous_results = EmptyDict /\ retagged = None
    /\ batch_paths = <<>> /\ batch_results = EmptyDict /\ cursor = 1
    /\ ExtraIdle

ParseArtists ==
    /\ pc = "artists"
    /\ parsed_artists' = _parse_artists(artist_arg)
    /\ pc' = "artists_parsed"
    /\ UNCHANGED <<artist_arg, junky_artist, sideVars, fileVars, titleVars,
                   runVars, analyzeVars, extraVars>>

CleanJunkyArtist ==
    /\ pc = "artists"
    /\ junky_artist' = _clean_junky_artist(artist_arg)
    /\ pc' = "junky_cleaned"
    /\ UNCHANGED <<artist_arg, parsed_artists, sideVars, fileVars, titleVars,
                   runVars, analyzeVars, extraVars>>

NextArtists == ParseArtists \/ CleanJunkyArtist

SpecArtists == InitArtists /\ [][NextArtists]_vars

(* preview and apply over the files of a disk *)

Init ==
    /\ pc = "idle"
    /\ disk \in [DiskPaths -> START_TAGS]
    /\ cleaned_data = EmptyDict /\ todo = <<>>
    /\ success_count = 0 /\ writes = <<>> /\ escaped = FALSE
    /\ artist_arg = <<>> /\ parsed_artists = <<>> /\ junky_artist = <<>>
    /\ trace = <<>> /\ previous_results = EmptyDict /\ retagged = None
    /\ batch_paths = <<>> /\ batch_results = EmptyDict /\ cursor = 1
    /\ ExtraIdle
    /\ filename_data = <<>> /\ artist_side = None /\ second_side = None
    /\ item = <<>> /\ policy = "" /\ record = <<>>
    /\ title_string = <<>> /\ known_artists = <<>> /\ cleaned = <<>>
    /\ title_result = <<>> /\ second_result = <<>>

\* a preview that would also commit what it computed
\* the call returned r.results; r.filename_data and r.artist_side were its locals
PreviewReturns(r) ==
    /\ filename_data' = r.filename_data
    /\ artist_side' = r.artist_side
    /\ cleaned_data' = r.results

AutoApplies(r) ==
    /\ PreviewReturns(r)
    /\ disk' = [p \in DOMAIN disk |->
                  IF p \in DOMAIN r.results
                  THEN write_metadata(p, disk[p],
                           UpdatedMetadata(read_metadata(disk[p]), r.results[p]),
                           TRUE)
                  ELSE disk[p]]

PreviewAutoApply ==
    /\ pc \in {"idle", "previewed", "applied"}
    /\ AutoApplies(batch_clean_files(PathsOf(disk, 1), disk))
    /\ pc' = "previewed"
    /\ UNCHANGED <<second_side, todo, success_count, writes, escaped,
                   titleVars, fileVars,
                   artistVars, analyzeVars, extraVars>>

\* batch_clean_files(file_paths, metadata_manager) over the files of the disk;
\* every read_metadata succeeds
Preview ==
    /\ pc \in {"idle", "previewed", "applied"}
    /\ PreviewReturns(batch_clean_files(PathsOf(disk, 1), disk))
    /\ pc' = "previewed"
    /\ UNCHANGED <<second_side, disk, todo, success_count, writes, escaped,
                   titleVars, fileVars,
                   artistVars, analyzeVars, extraVars>>

\* apply_cleaned_metadata(cleaned_data, metadata_manager) is called
BeginApply ==
    /\ pc \in {"previewed", "applied"}
    /\ todo' = [k \in DOMAIN filename_data |-> filename_data[k].path]
    /\ success_count' = 0
    /\ writes' = <<>>
    /\ escaped' = FALSE
    /\ first_preview' = IF pc = "previewed" THEN Some(cleaned_data) ELSE None
    /\ pc' = "applying"
    /\ UNCHANGED <<disk, cleaned_data, sideVars, titleVars, fileVars,
                   artistVars, analyzeVars, nameVars, saved_count, guiVars>>

\* one round of its loop, with write_metadata's outcome
ApplyFileUncaught(outcome) ==
    /\ pc = "applying"
    /\ todo # <<>>
    /\ LET path == Head(todo)
           existing == read_metadata(disk[path])
           updated == UpdatedMetadata(existing, cleaned_data[path])
       IN /\ disk' = IF outcome = "true"
                     THEN [disk EXCEPT ![path] =
                              write_metadata(path, @, updated, TRUE)]
                     ELSE disk
          /\ writes' = Append(writes, <<path, outcome>>)
    /\ success_count' = IF outcome = "true" THEN success_count + 1
                        ELSE success_count
    /\ IF outcome = "raise"
       THEN escaped' = TRUE /\ pc' = "applied" /\ todo' = todo
       ELSE escaped' = escaped /\ pc' = pc /\ todo' = Tail(todo)
    /\ UNCHANGED <<cleaned_data, sideVars, titleVars, fileVars,
                   artistVars, analyzeVars, extraVars>>

ApplyFileCountsAll(outcome) ==
    /\ pc = "applying"
    /\ todo # <<>>
    /\ LET path == Head(todo)
           existing == read_metadata(disk[path])
           updated == UpdatedMetadata(existing, cleaned_data[path])
       IN /\ disk' = IF outcome = "true"
                     THEN [disk EXCEPT ![path] =
                              write_metadata(path, @, updated, TRUE)]
                     ELSE disk
          /\ writes' = Append(writes, <<path, outcome>>)
    /\ success_count' = IF outcome # "raise" THEN success_count + 1
                        ELSE success_count
    /\ todo' = Tail(todo)
    /\ UNCHANGED <<pc, escaped, cleaned_data, sideVars, titleVars, fileVars,
                   artistVars, analyzeVars, extraVars>>

ApplyFile(outcome) ==
    /\ pc = "applying"
    /\ todo # <<>>
    /\ LET path == Head(todo)
           existing == read_metadata(disk[path])
           updated == UpdatedMetadata(existing, cleaned_data[path])
       IN /\ disk' = IF outcome = "true"
                     THEN [disk EXCEPT ![path] =
                              write_metadata(path, @, updated, TRUE)]
                     ELSE disk
          /\ writes' = Append(writes, <<path, outcome>>)
    /\ success_count' = IF outcome = "true" THEN success_count + 1
                        ELSE success_count
    /\ todo' = Tail(todo)
    /\ UNCHANGED <<pc, escaped, cleaned_data, sideVars, titleVars, fileVars,
                   artistVars, analyzeVars, extraVars>>

ApplyStep == \E outcome \in WRITE_OUTCOMES : ApplyFile(outcome)

\* return success_count
ApplyReturn ==
    /\ pc = "applying"
    /\ todo = <<>>
    /\ pc' = "applied"
    /\ UNCHANGED <<disk, cleaned_data, todo, success_count, writes, escaped,
                   sideVars, titleVars, fileVars,
                   artistVars, analyzeVars, extraVars>>

Next == Preview \/ BeginApply \/ ApplyStep \/ ApplyReturn

Spec == Init /\ [][Next]_vars

\* a call of apply_cleaned_metadata that has started keeps running: its loop
\* and its return are not preempted for ever
SpecFair == Spec /\ WF_vars(ApplyStep) /\ WF_vars(ApplyReturn)


(* analyze_folder step by step, run a second time after the tags of one    *)
(* file of the batch have changed                                          *)

InitAnalyze ==
    /\ pc = "analyze"
    /\ batch_paths \in PathLists(MaxRunFiles)
    /\ \E tags \in START_TAGS : disk = [p \in ANALYZE_PATHS |-> tags]
    /\ filename_data = <<>> /\ artist_side = None /\ second_side = None
    /\ batch_results = EmptyDict /\ cursor = 1
    /\ ExtraIdle
    /\ trace = <<>> /\ previous_results = EmptyDict /\ retagged = None
    /\ item = <<>> /\ policy = "" /\ record = <<>>
    /\ title_string = <<>> /\ known_artists = <<>> /\ cleaned = <<>>
    /\ title_result = <<>> /\ second_result = <<>>
    /\ cleaned_data = EmptyDict /\ todo = <<>>
    /\ success_count = 0 /\ writes = <<>> /\ escaped = FALSE
    /\ artist_arg = <<>> /\ parsed_artists = <<>> /\ junky_artist = <<>>

idleVars == <<second_side, titleVars, fileVars, artistVars, extraVars,
              cleaned_data, todo, success_count, writes, escaped>>

\* if not file_paths: return {}
AnalyzeEmpty ==
    /\ pc = "analyze"
    /\ batch_paths = <<>>
    /\ pc' = "analyze_returned"
    /\ UNCHANGED <<filename_data, artist_side, disk, analyzeVars, idleVars>>

AnalyzeBegin ==
    /\ pc = "analyze"
    /\ batch_paths # <<>>
    /\ pc' = "analyze_extract"
    /\ UNCHANGED <<filename_data, artist_side, disk, analyzeVars, idleVars>>

\* one round of the loop of step 1
AnalyzeExtract ==
    /\ pc = "analyze_extract"
    /\ cursor <= Len(batch_paths)
    /\ filename_data' = Append(filename_data,
                                ReadEntry(disk, batch_paths[cursor]))
    /\ trace' = Append(trace, <<"entry", batch_paths[cursor]>>)
    /\ cursor' = cursor + 1
    /\ UNCHANGED <<pc, artist_side, disk, previous_results, retagged,
                   batch_paths, batch_results, idleVars>>

\* step 2
AnalyzeDecides(side) ==
    /\ artist_side' = Some(side)
    /\ trace' = Append(trace, <<"side", side>>)

AnalyzeDecide ==
    /\ pc = "analyze_extract"
    /\ cursor > Len(batch_paths)
    /\ AnalyzeDecides(_determine_artist_side(filename_data))
    /\ pc' = "analyze_process"
    /\ cursor' = 1
    /\ UNCHANGED <<filename_data, disk, previous_results, retagged,
                   batch_paths, batch_results, idleVars>>

\* one round of the loop of step 3
AnalyzeProcesses(it, side) ==
    /\ batch_results' = Put(batch_results, it.path,
                            Returned(_process_file(it, side)))
    /\ trace' = Append(trace, <<"file", it.path, side>>)

AnalyzeProcess ==
    /\ pc = "analyze_process"
    /\ cursor <= Len(filename_data)
    /\ AnalyzeProcesses(LoopItem(filename_data, cursor),
                        LoopSide(filename_data, artist_side, cursor))
    /\ cursor' = cursor + 1
    /\ UNCHANGED <<pc, filename_data, artist_side, disk, previous_results,
                   retagged, batch_paths, idleVars>>

\* return results
AnalyzeReturn ==
    /\ pc = "analyze_process"
    /\ cursor > Len(filename_data)
    /\ pc' = "analyze_returned"
    /\ UNCHANGED <<filename_data, artist_side, disk, analyzeVars, idleVars>>

\* the tags of one file of the batch change and analyze_folder is called
\* again with the same paths
Retag ==
    /\ pc = "analyze_returned"
    /\ retagged = None
    /\ \E q \in Range(batch_paths) :
          /\ \E tags \in RETAGS \ {disk[q]} :
                disk' = [disk EXCEPT ![q] = tags]
          /\ retagged' = Some(q)
    /\ previous_results' = batch_results
    /\ filename_data' = <<>> /\ artist_side' = None
    /\ batch_results' = EmptyDict /\ trace' = <<>> /\ cursor' = 1
    /\ pc' = "analyze"
    /\ UNCHANGED <<batch_paths, idleVars>>

NextAnalyze ==
    \/ AnalyzeEmpty \/ AnalyzeBegin \/ AnalyzeExtract \/ AnalyzeDecide
    \/ AnalyzeProcess \/ AnalyzeReturn \/ Retag

SpecAnalyze == InitAnalyze /\ [][NextAnalyze]_vars

(* clean_filename on a file name, then on the name it returned *)

InitName ==
    /\ pc = "clean_filename"
    /\ name_arg \in FragmentNames(MaxNameFragments)
    /\ cleaned_name = <<>> /\ recleaned_name = <<>>
    /\ MoreIdle
    /\ filename_data = <<>> /\ artist_side = None /\ second_side = None
    /\ item = <<>> /\ policy = "" /\ record = <<>>
    /\ title_string = <<>> /\ known_artists = <<>> /\ cleaned = <<>>
    /\ title_result = <<>> /\ second_result = <<>>
    /\ disk = EmptyDict /\ cleaned_data = EmptyDict /\ todo = <<>>
    /\ success_count = 0 /\ writes = <<>> /\ escaped = FALSE
    /\ artist_arg = <<>> /\ parsed_artists = <<>> /\ junky_artist = <<>>
    /\ trace = <<>> /\ previous_results = EmptyDict /\ retagged = None
    /\ batch_paths = <<>> /\ batch_results = EmptyDict /\ cursor = 1

CleanFilename ==
    /\ pc = "clean_filename"
    /\ cleaned_name' = clean_filename(name_arg)
    /\ pc' = "name_cleaned"
    /\ UNCHANGED <<name_arg, recleaned_name, sideVars, titleVars, fileVars,
                   runVars, artistVars, analyzeVars, moreVars>>

CleanFilenameAgain ==
    /\ pc = "name_cleaned"
    /\ recleaned_name' = clean_filename(cleaned_name)
    /\ pc' = "name_cleaned_twice"
    /\ UNCHANGED <<name_arg, cleaned_name, sideVars, titleVars, fileVars,
                   runVars, artistVars, analyzeVars, moreVars>>

NextName == CleanFilename \/ CleanFilenameAgain

SpecName == InitName /\ [][NextName]_vars

(* TitleCleaner.apply_cleaned_titles over the files of a disk *)

\* records of the mapping: title, composer and featuring, and a record
\* without the featuring key
TITLE_RECORDS ==
    {[f \in {"title", "composer", "featuring"} |->
        IF f = "title" THEN Str("So") ELSE <<>>],
     [f \in {"title", "composer", "featuring"} |->
        IF f = "title" THEN Str("So") ELSE Str("Bo")],
     [f \in {"title", "composer"} |-> IF f = "title" THEN Str("So") ELSE Str("Bo")]}

\* the metadata dict built for one record
TitleMetadata(data) ==
    [f \in {"title", "composer", "featuring", "comment"} |->
        IF f = "comment" THEN data["featuring"] ELSE data[f]]

\* data["title"], data["composer"] or data["featuring"] raises KeyError
RecordLacksKey(data) == {"title", "composer", "featuring"} \ DOMAIN data # {}

\* write_metadata catches every exception: it returns True or False
TITLE_WRITE_OUTCOMES == {"true", "false"}

InitTitles ==
    /\ pc = "saving"
    /\ disk \in [DiskPaths -> START_TAGS]
    /\ cleaned_data \in [DiskPaths -> TITLE_RECORDS]
    /\ todo = PathList(1)
    /\ saved_count = 0 /\ writes = <<>>
    /\ GuiIdle /\ first_preview = None
    /\ success_count = 0 /\ escaped = FALSE
    /\ name_arg = <<>> /\ cleaned_name = <<>> /\ recleaned_name = <<>>
    /\ filename_data = <<>> /\ artist_side = None /\ second_side = None
    /\ item = <<>> /\ policy = "" /\ record = <<>>
    /\ title_string = <<>> /\ known_artists = <<>> /\ cleaned = <<>>
    /\ title_result = <<>> /\ second_result = <<>>
    /\ artist_arg = <<>> /\ parsed_artists = <<>> /\ junky_artist = <<>>
    /\ trace = <<>> /\ previous_results = EmptyDict /\ retagged = None
    /\ batch_paths = <<>> /\ batch_results = EmptyDict /\ cursor = 1

\* one round of the loop for a record that has its keys
SaveTitle(outcome) ==
    /\ pc = "saving"
    /\ todo # <<>>
    /\ ~RecordLacksKey(cleaned_data[Head(todo)])
    /\ disk' = IF outcome = "true"
               THEN [disk EXCEPT ![Head(todo)] =
                        write_metadata(Head(todo), @,
                            TitleMetadata(cleaned_data[Head(todo)]), TRUE)]
               ELSE disk
    /\ writes' = Append(writes, <<Head(todo), outcome>>)
    /\ saved_count' = saved_count + 1   \* whatever the call returned
    /\ todo' = Tail(todo)
    /\ UNCHANGED <<pc, cleaned_data, success_count, escaped, sideVars,
                   titleVars, fileVars, artistVars, analyzeVars, nameVars, guiVars, first_preview>>

SaveStep == \E outcome \in TITLE_WRITE_OUTCOMES : SaveTitle(outcome)

\* a round whose record lacks a key: the KeyError is caught and printed
SaveKeyError ==
    /\ pc = "saving"
    /\ todo # <<>>
    /\ RecordLacksKey(cleaned_data[Head(todo)])
    /\ todo' = Tail(todo)
    /\ UNCHANGED <<pc, disk, cleaned_data, writes, saved_count, success_count,
                   escaped, sideVars, titleVars, fileVars, artistVars,
                   analyzeVars, nameVars, guiVars, first_preview>>

\* return saved_count
SaveReturn ==
    /\ pc = "saving"
    /\ todo = <<>>
    /\ pc' = "saved"
    /\ UNCHANGED <<disk, cleaned_data, todo, writes, saved_count,
                   success_count, escaped, sideVars, titleVars, fileVars,
                   artistVars, analyzeVars, nameVars, guiVars, first_preview>>

NextTitles == SaveStep \/ SaveKeyError \/ SaveReturn

SpecTitles == InitTitles /\ [][NextTitles]_vars

(* MainWindow.auto_cleanup: the Clean button, the preview and its answer *)

\* tags a file of the list can have
GUI_TAGS ==
    {EmptyDict,
     [f \in {"title"} |-> Str("So")],
     [f \in {"title", "artist"} |->
        IF f = "title" THEN Str("Ar - So (ft. Bo) (HD)") ELSE Str("Ar")]}
GUI_ARTISTS == {<<>>, Str("So")}

\* the selected paths, in the order of the list
RECURSIVE SelectedList(_, _)
SelectedList(S, k) ==
    IF k > Len(PathList(1)) THEN <<>>
    ELSE (IF PathList(1)[k] \in S THEN <<PathList(1)[k]>> ELSE <<>>)
         \o SelectedList(S, k + 1)

\* MutagenFile(path, easy=True) of a file without tags is empty, and
\* "if not audio: continue" leaves the file out
NotAudio(tags) == DOMAIN tags = {}

\* artist_for_clean = ui_artist if ui_artist else artist
ArtistForClean(ui, tags) ==
    IF Strip(ui) # <<>> THEN Strip(ui) ELSE Get(tags, "artist", <<>>)

\* cleaned_data[path] of one file
CleanupRecord(tags, ui) ==
    clean_title(Get(tags, "title", <<>>), ArtistForClean(ui, tags),
                Get(tags, "composer", <<>>))

\* the keys of cleaned_data in the order they were inserted
RECURSIVE CleanupPaths(_, _, _)
CleanupPaths(sel, d, k) ==
    IF k > Len(sel) THEN <<>>
    ELSE (IF NotAudio(d[sel[k]]) THEN <<>> ELSE <<sel[k]>>)
         \o CleanupPaths(sel, d, k + 1)

CleanupData(sel, d, ui) ==
    [p \in Range(CleanupPaths(sel, d, 1)) |-> CleanupRecord(d[p], ui)]

\* audio["title"] = data["title"]; audio["composer"] only when not blank
SavedTags(tags, data) ==
    IF data.composer # <<>>
    THEN Put(Put(tags, "title", data.title), "composer", data.composer)
    ELSE Put(tags, "title", data.title)

\* audio.save() was reached, or the round raised before it
GUI_SAVE_OUTCOMES == {"saved", "raised"}

InitCleanup ==
    /\ pc = "window"
    /\ disk \in [DiskPaths -> GUI_TAGS]
    /\ ui_artist \in GUI_ARTISTS
    /\ selection = <<>> /\ preview_dialog = "none" /\ tags_at_click = disk
    /\ cleaned_data = EmptyDict /\ todo = <<>> /\ writes = <<>>
    /\ saved_count = 0 /\ success_count = 0 /\ escaped = FALSE
    /\ first_preview = None
    /\ name_arg = <<>> /\ cleaned_name = <<>> /\ recleaned_name = <<>>
    /\ filename_data = <<>> /\ artist_side = None /\ second_side = None
    /\ item = <<>> /\ policy = "" /\ record = <<>>
    /\ title_string = <<>> /\ known_artists = <<>> /\ cleaned = <<>>
    /\ title_result = <<>> /\ second_result = <<>>
    /\ artist_arg = <<>> /\ parsed_artists = <<>> /\ junky_artist = <<>>
    /\ trace = <<>> /\ previous_results = EmptyDict /\ retagged = None
    /\ batch_paths = <<>> /\ batch_results = EmptyDict /\ cursor = 1

\* the click with nothing selected: an information box, then return
ClickWithoutSelection ==
    /\ pc = "window"
    /\ selection' = <<>>
    /\ tags_at_click' = disk
    /\ preview_dialog' = "select_first"
    /\ cleaned_data' = EmptyDict /\ todo' = <<>> /\ writes' = <<>>
    /\ pc' = "returned"
    /\ UNCHANGED <<disk, ui_artist, saved_count, success_count, escaped,
                   sideVars, titleVars, fileVars, artistVars, analyzeVars,
                   nameVars, first_preview>>

\* a preview that would save what it computed before it is shown
ShowPreviewAndSave(sel) ==
    /\ pc = "window"
    /\ sel # <<>>
    /\ selection' = sel
    /\ tags_at_click' = disk
    /\ cleaned_data' = CleanupData(sel, disk, ui_artist)
    /\ disk' = [p \in DOMAIN disk |->
                  IF p \in Range(CleanupPaths(sel, disk, 1))
                  THEN SavedTags(disk[p], CleanupRecord(disk[p], ui_artist))
                  ELSE disk[p]]
    /\ todo' = <<>> /\ writes' = <<>>
    /\ preview_dialog' = "preview"
    /\ pc' = "dialog"
    /\ UNCHANGED <<ui_artist, saved_count, success_count, escaped,
                   sideVars, titleVars, fileVars, artistVars, analyzeVars,
                   nameVars, first_preview>>

\* the click with a selection: cleaned_data is computed from the tags read
\* and the preview box is shown
ShowPreview(sel) ==
    /\ pc = "window"
    /\ sel # <<>>
    /\ selection' = sel
    /\ tags_at_click' = disk
    /\ cleaned_data' = CleanupData(sel, disk, ui_artist)
    /\ todo' = <<>> /\ writes' = <<>>
    /\ preview_dialog' = "preview"
    /\ pc' = "dialog"
    /\ UNCHANGED <<disk, ui_artist, saved_count, success_count, escaped,
                   sideVars, titleVars, fileVars, artistVars, analyzeVars,
                   nameVars, first_preview>>

ClickWithSelection ==
    \E S \in SUBSET DiskPaths : ShowPreview(SelectedList(S, 1))

\* msg.exec() == QMessageBox.Ok
DialogOk ==
    /\ pc = "dialog"
    /\ preview_dialog' = "ok"
    /\ todo' = CleanupPaths(selection, disk, 1)
    /\ pc' = "saving"
    /\ UNCHANGED <<disk, cleaned_data, writes, selection, ui_artist,
                   tags_at_click, saved_count, success_count, escaped,
                   sideVars, titleVars, fileVars, artistVars, analyzeVars,
                   nameVars, first_preview>>

\* any other answer: nothing more is done
DialogCancel ==
    /\ pc = "dialog"
    /\ preview_dialog' = "cancelled"
    /\ pc' = "returned"
    /\ UNCHANGED <<disk, cleaned_data, todo, writes, selection, ui_artist,
                   tags_at_click, saved_count, success_count, escaped,
                   sideVars, titleVars, fileVars, artistVars, analyzeVars,
                   nameVars, first_preview>>

\* one round of "for path, data in cleaned_data.items()"
SaveCleaned(outcome) ==
    /\ pc = "saving"
    /\ todo # <<>>
    /\ disk' = IF outcome = "saved"
               THEN [disk EXCEPT ![Head(todo)] =
                        SavedTags(@, cleaned_data[Head(todo)])]
               ELSE disk
    /\ writes' = Append(writes, <<Head(todo), outcome>>)
    /\ todo' = Tail(todo)
    /\ UNCHANGED <<pc, cleaned_data, selection, ui_artist, preview_dialog,
                   tags_at_click, saved_count, success_count, escaped,
                   sideVars, titleVars, fileVars, artistVars, analyzeVars,
                   nameVars, first_preview>>

SaveCleanedStep == \E outcome \in GUI_SAVE_OUTCOMES : SaveCleaned(outcome)

\* the "Complete" box, then return
CleanupComplete ==
    /\ pc = "saving"
    /\ todo = <<>>
    /\ preview_dialog' = "complete"
    /\ pc' = "returned"
    /\ UNCHANGED <<disk, cleaned_data, todo, writes, selection, ui_artist,
                   tags_at_click, saved_count, success_count, escaped,
                   sideVars, titleVars, fileVars, artistVars, analyzeVars,
                   nameVars, first_preview>>

\* the box is closed and the window takes the next click
BackToWindow ==
    /\ pc = "returned"
    /\ pc' = "window"
    /\ UNCHANGED <<disk, cleaned_data, todo, writes, selection, ui_artist,
                   preview_dialog, tags_at_click, saved_count, success_count,
                   escaped, sideVars, titleVars, fileVars, artistVars,
                   analyzeVars, nameVars, first_preview>>

NextCleanup ==
    \/ ClickWithoutSelection \/ ClickWithSelection \/ DialogOk
    \/ DialogCancel \/ SaveCleanedStep \/ CleanupComplete \/ BackToWindow

SpecCleanup == InitCleanup /\ [][NextCleanup]_vars

(* apply_cleaned_metadata over files with more tags, for any mapping *)

\* tags a file can start with: a garbage track number, a full set of tags,
\* a track number with a total, no tag at all
RICH_TAGS ==
    {[f \in {"artist", "title", "tracknumber"} |->
        IF f = "artist" THEN Str("Ex") ELSE IF f = "title" THEN Str("Old") ELSE Str("63")],
     [f \in {"artist", "title", "album", "albumartist", "tracknumber",
             "discnumber", "date", "genre", "comment", "composer"} |->
        CASE f = "artist" -> Str("Ex")
          [] f = "title" -> Str("Old")
          [] f = "album" -> Str("Al")
          [] f = "albumartist" -> Str("Va")
          [] f = "tracknumber" -> Str("5")
          [] f = "discnumber" -> Str("1")
          [] f = "date" -> Str("1999")
          [] f = "genre" -> Str("Pop")
          [] f = "comment" -> Str("hi")
          [] OTHER -> Str("Zed")],
     [f \in {"tracknumber"} |-> Str("5/12")],
     EmptyDict}

\* records of the mapping given to apply_cleaned_metadata
APPLY_RECORDS ==
    {[f \in {"artist", "title", "composer"} |-> <<>>],
     [f \in {"artist", "title", "composer"} |->
        IF f = "artist" THEN Str("Ar") ELSE IF f = "title" THEN Str("So") ELSE Str("Bo")],
     [f \in {"artist", "title", "composer"} |->
        IF f = "title" THEN Str("So") ELSE <<>>]}

InitApply ==
    /\ pc = "previewed"
    /\ disk \in [DiskPaths -> RICH_TAGS]
    /\ cleaned_data \in [DiskPaths -> APPLY_RECORDS]
    /\ filename_data = ExtractEntries(PathList(1), disk)
    /\ todo = <<>> /\ success_count = 0 /\ writes = <<>> /\ escaped = FALSE
    /\ ExtraIdle
    /\ artist_side = None /\ second_side = None
    /\ item = <<>> /\ policy = "" /\ record = <<>>
    /\ title_string = <<>> /\ known_artists = <<>> /\ cleaned = <<>>
    /\ title_result = <<>> /\ second_result = <<>>
    /\ artist_arg = <<>> /\ parsed_artists = <<>> /\ junky_artist = <<>>
    /\ trace = <<>> /\ previous_results = EmptyDict /\ retagged = None
    /\ batch_paths = <<>> /\ batch_results = EmptyDict /\ cursor = 1

NextApply == BeginApply \/ ApplyStep \/ ApplyReturn

SpecApply == InitApply /\ [][NextApply]_vars

(* preview, apply and preview again, with a file whose name has no artist *)

ROUND_PATHS == {ALL_PATHS[1], ALL_PATHS[3]}
ROUND_TAGS == START_TAGS \cup {[f \in {"artist"} |-> Str("Ex, Bo")]}

InitRound ==
    /\ pc = "idle"
    /\ disk \in [ROUND_PATHS -> ROUND_TAGS]
    /\ cleaned_data = EmptyDict /\ todo = <<>>
    /\ success_count = 0 /\ writes = <<>> /\ escaped = FALSE
    /\ ExtraIdle
    /\ filename_data = <<>> /\ artist_side = None /\ second_side = None
    /\ item = <<>> /\ policy = "" /\ record = <<>>
    /\ title_string = <<>> /\ known_artists = <<>> /\ cleaned = <<>>
    /\ title_result = <<>> /\ second_result = <<>>
    /\ artist_arg = <<>> /\ parsed_artists = <<>> /\ junky_artist = <<>>
    /\ trace = <<>> /\ previous_results = EmptyDict /\ retagged = None
    /\ batch_paths = <<>> /\ batch_results = EmptyDict /\ cursor = 1

NextRound == Preview \/ BeginApply \/ ApplyStep \/ ApplyReturn

SpecRound == InitRound /\ [][NextRound]_vars
-----------------------------------------------------------------------------
(* Properties *)

\* distinct entries of a list of names under normalized comparison
DistinctNames(names) == {_normalize_for_comparison(a) : a \in Range(names)}

(* C1 *)

HasLeft(it) == it.left # None
HasNonEmptyLeft(it) == it.left # None /\ it.left[1] # <<>>

\* highest count of any token among the pairs <<index, token>>
Highest(counts) == CHOOSE n \in counts : \A m \in counts : m <= n

HighestCount(tokens) ==
    IF tokens = {} THEN 0
    ELSE Highest({Cardinality({u \in tokens : u[2] = t[2]}) : t \in tokens})

ReferenceDecision(L, R, total) ==
    IF L * 100 >= 30 * total /\ L > R THEN "left"
    ELSE IF R * 100 >= 30 * total /\ R > L THEN "right"
    ELSE "left"

ReferenceOver(data, idx) ==
    IF idx = {} THEN "unknown"
    ELSE ReferenceDecision(
             HighestCount({<<k, LeadToken(data[k].left[1])>> : k \in idx}),
             HighestCount({<<k, LeadToken(data[k].right)>> : k \in idx}),
             Len(data))

\* the reference decision function, tallying the entries that Counted accepts
ReferenceSide(data, Counted(_)) ==
    ReferenceOver(data, {k \in DOMAIN data : Counted(data[k])})

\* C1 as stated: for every batch, _determine_artist_side returns the reference
\* decision in which the tokens are tallied over the entries that have a left
\* segment (the text before the separator, which can be empty) and the
\* scores are taken over all entries.
C1_SideIsReferenceOverLeftSegments ==
    pc = "decided" => artist_side = Some(ReferenceSide(filename_data, HasLeft))

\* C1 amended: for every batch, _determine_artist_side returns the reference
\* decision in which the tokens are tallied over the entries that have a
\* NON-EMPTY left segment: 'unknown' if there is none, 'left' when
\* L/total >= 0.30 and L > R, else 'right' when R/total >= 0.30 and R > L,
\* else 'left', with total the number of all entries.
C1_SideIsReferenceOverNonEmptyLefts ==
    pc = "decided" =>
        artist_side = Some(ReferenceSide(filename_data, HasNonEmptyLeft))

\* a batch with an entry without separator and one with an empty left
\* segment, decided 'right'
C1_RightDecidedWitness ==
    /\ pc = "decided"
    /\ artist_side = Some("right")
    /\ \E k \in DOMAIN filename_data : filename_data[k].left = None
    /\ \E k \in DOMAIN filename_data : filename_data[k].left = Some(<<>>)

(* C2 *)

\* C2: the record _process_file returns has a non-empty composer if and only
\* if the artists parsed from the artist candidate together with the featured
\* names extracted from the title hold at least 2 entries that are distinct
\* under case-insensitive normalized comparison.
C2_ComposerIffTwoDistinctArtists ==
    pc = "file_processed" =>
        (record.composer # <<>>
            <=> Cardinality(DistinctNames(record.all_artists
                                          \o record.title_features)) >= 2)

\* a composer made of one artist written twice
C2_ComposerOfOneArtistWitness ==
    /\ pc = "file_processed"
    /\ record.composer # <<>>
    /\ Cardinality(DistinctNames(record.all_artists \o record.title_features)) = 1

(* C3 *)

\* C3: for every non-empty title and any known-artist list, the title that
\* _clean_title returns has length >= 1, and whenever noise and feature
\* removal leaves fewer than 2 characters the original title is returned
\* unchanged.
C3_TitleNeverEmpty ==
    (pc \in {"title_cleaned", "title_cleaned_twice"} /\ title_string # <<>>) =>
        /\ Len(title_result.title) >= 1
        /\ Len(cleaned) < 2 => title_result.title = title_string

\* removal left exactly one character of a longer title
C3_FallbackToOriginalWitness ==
    /\ pc = "title_cleaned"
    /\ Len(cleaned) = 1
    /\ Len(title_string) > 2
    /\ title_result.title = title_string

(* C4 *)

\* C4: preview never writes: a step of batch_clean_files / analyze_folder
\* calls no write_metadata and leaves every file's stored tags unchanged, and
\* every step that calls write_metadata or changes stored tags is a round of
\* the loop of apply_cleaned_metadata over a path of a mapping that was
\* computed before.
C4_PreviewNeverWrites ==
    [][/\ pc' = "previewed" => (disk' = disk /\ writes' = writes)
       /\ (disk' # disk \/ Len(writes') > Len(writes)) =>
             /\ pc = "applying" /\ pc' = "applying"
             /\ todo # <<>>
             /\ Head(todo) \in DOMAIN cleaned_data
             /\ cleaned_data' = cleaned_data]_vars

\* a preview computed a mapping for files whose tags an earlier apply wrote
C4_PreviewAfterApplyWitness ==
    /\ pc = "previewed"
    /\ cleaned_data # EmptyDict
    /\ \E k \in DOMAIN writes : writes[k][2] = "true"
    /\ \E p \in DOMAIN disk : disk[p] # EmptyDict

(* C5 *)

\* the paths for which write_metadata was called, in order
Attempted == [k \in DOMAIN writes |-> writes[k][1]]

\* C5: apply_cleaned_metadata tolerates per-file failure: whatever each
\* write does (returns true, returns false, raises), no exception leaves the
\* call, a call that has started returns, and when it returns a write has been
\* attempted for every path of the mapping, once each.
C5_ApplyToleratesFailure ==
    /\ [](~escaped)
    /\ [](pc = "applied" =>
            /\ Range(Attempted) = DOMAIN cleaned_data
            /\ Len(Attempted) = Cardinality(DOMAIN cleaned_data))
    /\ (pc = "applying") ~> (pc = "applied")

\* the first write raised and a later one was still made and succeeded
C5_WriteAfterRaiseWitness ==
    /\ pc = "applied"
    /\ Len(writes) >= 2
    /\ writes[1][2] = "raise"
    /\ writes[Len(writes)][2] = "true"

(* C6 *)

\* C6: the value apply_cleaned_metadata returns is the number of paths of
\* the mapping whose write_metadata call returned true (failed and raising
\* writes are not counted), so 0 <= count <= number of paths.
C6_ReturnsCountOfTrueWrites ==
    pc = "applied" =>
        /\ success_count = Cardinality({k \in DOMAIN writes : writes[k][2] = "true"})
        /\ 0 <= success_count
        /\ success_count <= Cardinality(DOMAIN cleaned_data)

\* a call that returned 1 after one write succeeded and one failed
C6_PartialCountWitness ==
    /\ pc = "applied"
    /\ success_count = 1
    /\ \E k \in DOMAIN writes : writes[k][2] = "false"
    /\ \E k \in DOMAIN writes : writes[k][2] = "true"

(* C7 *)

\* C7: after apply_cleaned_metadata successfully writes a record whose
\* composer is '' to a file that had a non-empty composer tag, the file's
\* composer tag is empty.
C7_ComposerClearedOnApply ==
    [][(/\ pc = "applying" /\ todo # <<>>
        /\ writes' = Append(writes, <<Head(todo), "true">>)
        /\ cleaned_data[Head(todo)].composer = <<>>
        /\ Get(disk[Head(todo)], "composer", <<>>) # <<>>)
       => Get(disk'[Head(todo)], "composer", <<>>) = <<>>]_vars

\* a record with composer '' was written with success and the file still
\* carries a composer tag
C7_ComposerKeptWitness ==
    /\ pc = "applying"
    /\ \E k \in DOMAIN writes :
          /\ writes[k][2] = "true"
          /\ cleaned_data[writes[k][1]].composer = <<>>
          /\ Get(disk[writes[k][1]], "composer", <<>>) # <<>>

(* C8 *)

\* C8: the featured list _clean_title returns holds one entry per name: no
\* two of its entries are the same name under different letter casing.
C8_FeaturedNamesDistinct ==
    pc = "title_cleaned" =>
        \A i, j \in DOMAIN title_result.featured :
            i # j => Lower(title_result.featured[i]) # Lower(title_result.featured[j])

\* a featured list that names one artist twice
C8_FeaturedTwiceWitness ==
    /\ pc = "title_cleaned"
    /\ Len(title_result.featured) = 2
    /\ title_result.featured[1] # title_result.featured[2]
    /\ Lower(title_result.featured[1]) = Lower(title_result.featured[2])

(* C9 *)

\* C9: noise stripping is idempotent: with t the title _clean_title returns
\* for x, the title _clean_title returns for t is t.
C9_CleanTitleIdempotent ==
    pc = "title_cleaned_twice" => second_result.title = title_result.title

\* a second pass that removed something more
C9_SecondPassShorterWitness ==
    /\ pc = "title_cleaned_twice"
    /\ Len(second_result.title) < Len(title_result.title)

(* C10 *)

\* C10: for each marker of {feat., ft., featuring} in any letter case, bare or
\* enclosed in parentheses or square brackets, _clean_title returns the
\* remaining title T and a featured list containing N; and the title
\* 'SomeArtist - Song Title (feat. Other Artist)' with known artist
\* 'SomeArtist' gives title 'Song Title' and a featured list containing
\* 'Other Artist'.
C10_MarkersRecognized ==
    /\ (pc = "title_cleaned" /\ title_string \in MarkerTitles) =>
          /\ title_result.title = Str("So")
          /\ Str("Bo") \in Range(title_result.featured)
    /\ (pc = "title_cleaned" /\ title_string = SCENARIO_TITLE
                             /\ known_artists = SCENARIO_ARTISTS) =>
          /\ title_result.title = Str("Song Title")
          /\ Str("Other Artist") \in Range(title_result.featured)

\* the parenthesized marker of the scenario was left in the title
C10_ParenthesizedMarkerKeptWitness ==
    /\ pc = "title_cleaned"
    /\ title_string = SCENARIO_TITLE
    /\ known_artists = SCENARIO_ARTISTS
    /\ title_result.title = Str("Song Title (feat. Other Artist)")
    /\ title_result.featured = <<>>

(* C11 *)

\* a name: not empty, no comma, no ampersand, no space at either end
IsName(n) ==
    /\ n # <<>>
    /\ \A i \in DOMAIN n : n[i] \notin {",", "&"}
    /\ Strip(n) = n

\* the rule for a chain of the given names, applied to what was parsed
ChainRule(whole, names, main, all_artists) ==
    IF Len(names) >= 3
    THEN /\ main = Join(SubSeq(names, 1, Len(names) - 1), Str(" & "))
         /\ all_artists = <<main, names[Len(names)]>>
    ELSE /\ main = whole
         /\ all_artists = <<whole>>

SCENARIO_CHAIN_FILE == Str("Romeo Santos & Prince Royce & Dalvin - Debate De 4")

C12_EveryAnnotationRemoved ==
    (pc = "title_cleaned" /\ title_string \in AnnotatedTitles) =>
        title_result.title = Str("So")

\* a quality tag that came back in the returned title
C12_QualityTagKeptWitness ==
    /\ pc = "title_cleaned"
    /\ title_string = Str("So (4K)")
    /\ title_result.title = Str("So (4K)")

(* C13 *)

\* the comma segments of an artist string, stripped
Segments(text) == StripAll(Split(text, Str(",")))

HasJunkIndicator(segment) ==
    \E ind \in JUNKY_INDICATORS : Contains(ind, Lower(segment))

\* the segments before the first one with a junk indicator
BeforeJunk(parts) ==
    SubSeq(parts, 1,
           FirstOf({k \in DOMAIN parts : HasJunkIndicator(parts[k])}
                   \cup {Len(parts) + 1}) - 1)

ShortSegment(segment) == Len(segment) < 50

\* C13: _clean_junky_artist returns a string shorter than 100 characters
\* unchanged, and for a string of 100 or more characters the comma-join of
\* exactly the comma segments that are shorter than 50 characters and occur
\* before the first segment with a junk indicator; the credits paragraph
\* starting 'The Marías, recorded at Sonic Ranch, mixed by' gives
\* 'The Marías'.
C13_JunkyArtistTruncated ==
    pc = "junky_cleaned" =>
        /\ Len(artist_arg) < 100 => junky_artist = artist_arg
        /\ Len(artist_arg) >= 100 =>
              junky_artist = Join(SelectSeq(BeforeJunk(Segments(artist_arg)),
                                            ShortSegment), Str(", "))
        /\ artist_arg = CREDITS_PARAGRAPH => junky_artist = Str("The Marías")

\* a long string without a segment to keep came back whole
C13_JunkReturnedWholeWitness == 
    /\ pc = "junky_cleaned"
    /\ Len(artist_arg) >= 100
    /\ HasJunkIndicator(Segments(artist_arg)[1])
    /\ junky_artist = artist_arg

(* C14 *)

\* an absent segment degrades to the empty string
SegmentText(segment) == IF segment = None THEN <<>> ELSE segment[1]

\* C14: the candidates _process_file selects follow the policy: under 'left'
\* the artist candidate is the left segment and the title candidate the
\* right segment; under 'right' the artist candidate is the right segment and
\* the title candidate the left segment if there is one, else the right
\* segment; under 'unknown' the artist candidate is the artist field of the
\* existing tags and the title candidate the right segment or, if that is
\* empty, the whole file name.
C14_CandidatesFollowPolicy ==
    pc = "file_processed" =>
        /\ policy = "left" =>
              /\ record.candidate_artist = SegmentText(item.left)
              /\ record.candidate_title = item.right
        /\ policy = "right" =>
              /\ record.candidate_artist = item.right
              /\ record.candidate_title =
                    IF Truthy(item.left) THEN item.left[1] ELSE item.right
        /\ policy = "unknown" =>
              /\ record.candidate_artist = Get(item.metadata, "artist", <<>>)
              /\ record.candidate_title =
                    IF item.right # <<>> THEN item.right ELSE item.filename

\* under 'right' an entry with an empty right segment got the whole file
\* name as title candidate and the existing artist tag as artist candidate
C14_RightPolicyEmptyRightWitness ==
    /\ pc = "file_processed"
    /\ policy = "right"
    /\ item.left = Some(Str("Ar")) /\ item.right = <<>>
    /\ record.candidate_title = Str("Ar-")
    /\ record.candidate_artist = Str("Ex")
    /\ record.title = Str("Ar-")

(* C15 *)

\* the junk filter of the comma rule, on one stripped segment
PassesFilter(segment) ==
    /\ Len(segment) <= 50
    /\ \A ind \in PARSE_JUNK_INDICATORS : ~Contains(ind, Lower(segment))

\* the leading run of segments that pass the filter
LeadingRun(parts) ==
    SubSeq(parts, 1,
           FirstOf({k \in DOMAIN parts : ~PassesFilter(parts[k])}
                   \cup {Len(parts) + 1}) - 1)

CommaRule(segments, parsed) ==
    /\ parsed.main = segments[1]
    /\ parsed.all_artists = LeadingRun(segments)

\* the ampersand-chain rule if there are two or more joins, else one artist
ChainOrSingle(whole, and_parts, parsed) ==
    IF Len(and_parts) >= 3
    THEN /\ parsed.main = Join(SubSeq(and_parts, 1, Len(and_parts) - 1), Str(" & "))
         /\ parsed.all_artists = <<parsed.main, and_parts[Len(and_parts)]>>
    ELSE /\ parsed.main = Strip(whole)
         /\ parsed.all_artists = <<Strip(whole)>>

CommaRuleApplies(text) ==
    Contains(Str(","), text) /\ PassesFilter(Segments(text)[1])

\* C15: _parse_artists gives the comma rule priority: when the string holds
\* a comma and its first comma segment passes the junk filter, main is the
\* first segment and all_artists the leading run of segments that pass the
\* filter, whatever ampersands the string holds; otherwise (no comma, or
\* the filter lets no segment through) the ampersand-chain rule applies
\* when there are two or more joins, and else the string is one artist.
C15_CommaRuleFirst ==
    (pc = "artists_parsed" /\ artist_arg # <<>>) =>
        IF CommaRuleApplies(artist_arg)
        THEN CommaRule(Segments(artist_arg), parsed_artists)
        ELSE ChainOrSingle(artist_arg, re_split(AND_SPLIT, artist_arg),
                           parsed_artists)

\* a string with a comma and two ampersand joins was parsed by the comma rule
C15_CommaBeatsChainWitness ==
    /\ pc = "artists_parsed"
    /\ artist_arg = Str("Ar & Ar & Ar, Ar")
    /\ parsed_artists.main = Str("Ar & Ar & Ar")
    /\ parsed_artists.all_artists = <<Str("Ar & Ar & Ar"), Str("Ar")>>

\* the title that the feature and tidy steps make of `kept`
DerivedTitle(kept) ==
    TidyTitle(RemoveMatches(kept, FeatMatchesFrom(kept, 1), 1))

\* P of 'P - T' equals a non-empty known artist, both normalized
PrefixIsKnown(P, known) ==
    \E a \in DOMAIN known :
        /\ known[a] # <<>>
        /\ _normalize_for_comparison(known[a]) = _normalize_for_comparison(P)

PrefixRule(parts, stripped, known, result) ==
    IF PrefixIsKnown(parts[1], known)
    THEN Len(DerivedTitle(parts[2])) >= 2 =>
             result = DerivedTitle(parts[2])
    ELSE Len(DerivedTitle(stripped)) >= 2 =>
             result = DerivedTitle(stripped)

\* C16: when the noise-stripped title is 'P - T' (split at the first ' - ')
\* and P equals a non-empty known artist under normalized comparison, the
\* returned title is the one derived from T alone, provided it has at least
\* 2 characters; when P matches no known artist the title is derived from
\* the whole noise-stripped title, prefix included.
C16_KnownArtistPrefixStripped ==
    (pc = "title_cleaned" /\ Contains(Str(" - "), RemoveNoise(title_string, 1))) =>
        PrefixRule(SplitOnce(RemoveNoise(title_string, 1), Str(" - ")),
                   RemoveNoise(title_string, 1), known_artists,
                   title_result.title)

\* 'Ar - So feat. Bo' with known artist 'ar' came back as 'So'
C16_PrefixStrippedWitness ==
    /\ pc = "title_cleaned"
    /\ title_string = Str("Ar - So feat. Bo")
    /\ known_artists = <<Str("ar")>>
    /\ title_result.title = Str("So")

\* C17: the ArtistInfo that _parse_artists returns for a non-empty string has
\* a non-empty all_artists list of which main is an element; for the empty
\* string main is '' and all_artists is empty.
C17_MainAmongAllArtists ==
    pc = "artists_parsed" =>
        IF artist_arg # <<>>
        THEN /\ parsed_artists.all_artists # <<>>
             /\ \E k \in DOMAIN parsed_artists.all_artists :
                    parsed_artists.all_artists[k] = parsed_artists.main
        ELSE /\ parsed_artists.main = <<>>
             /\ parsed_artists.all_artists = <<>>

\* a comma string whose first segment is junk was parsed as one artist
C17_JunkFirstSegmentWitness ==
    /\ pc = "artists_parsed"
    /\ artist_arg = Str("Mixed By Bo, Ar")
    /\ parsed_artists.main = Str("Mixed By Bo, Ar")
    /\ parsed_artists.all_artists = <<Str("Mixed By Bo, Ar")>>

\* several tokens share the highest count of the counter
TiedTokens(counter) == Cardinality(MostCommonPicks(counter)) > 1

\* C18: a second evaluation of _determine_artist_side on the same batch
\* returns the policy that the first one returned, whichever of the tokens
\* tied for the highest count most_common(1) puts first.
C18_SideDecisionDeterministic ==
    pc = "decided_twice" => second_side = artist_side

\* two left tokens tied for the highest count and the two calls agreed
C18_TiedTokensWitness ==
    /\ pc = "decided_twice"
    /\ TiedTokens(Tally(filename_data, 1, EmptyDict, EmptyDict).left)
    /\ second_side = artist_side
    /\ artist_side = Some("left")

\* the calls of one kind that the running analyze_folder has made
Events(kind) == {k \in DOMAIN trace : trace[k][1] = kind}

\* the policy computation j comes after all entries were built
AfterAllEntries(j) ==
    /\ Cardinality(Events("entry")) = Len(batch_paths)
    /\ \A k \in Events("entry") : k < j

\* the per-file resolution k comes after a policy computation and uses
\* its value
UsesComputedPolicy(k) ==
    \E j \in Events("side") : j < k /\ trace[k][3] = trace[j][2]

\* C19: in a run of analyze_folder on a batch the artist side is computed
\* once: after an entry was built for every path of the batch, before the
\* first per-file resolution, and every per-file resolution of the run is
\* given the computed value; when the run of a non-empty batch returns, the
\* side was computed exactly once and every entry was resolved.  (For an
\* empty list of paths the call returns at once: nothing is computed.)
C19_PolicyOnceBeforeResolution ==
    /\ Cardinality(Events("side")) <= 1
    /\ \A j \in Events("side") : AfterAllEntries(j)
    /\ \A k \in Events("file") : UsesComputedPolicy(k)
    /\ (pc = "analyze_returned" /\ batch_paths # <<>>) =>
          /\ Cardinality(Events("side")) = 1
          /\ Cardinality(Events("file")) = Len(batch_paths)
    /\ (pc = "analyze_returned" /\ batch_paths = <<>>) => trace = <<>>

\* both files of a batch were resolved with the side 'right' decided after
\* both entries
C19_RightForBothWitness ==
    /\ pc = "analyze_returned"
    /\ trace = << <<"entry", Str("/m/Ar - So.mp3")>>,
                  <<"entry", Str("/m/Bo - So.mp3")>>,
                  <<"side", "right">>,
                  <<"file", Str("/m/Ar - So.mp3"), "right">>,
                  <<"file", Str("/m/Bo - So.mp3"), "right">> >>

\* C20: when analyze_folder runs twice on the same paths and only the tags
\* of one file q differ between the runs, the record of every other file
\* of the batch is the same in both runs.
C20_OtherFilesUnaffected ==
    (pc = "analyze_returned" /\ retagged # None) =>
        /\ DOMAIN batch_results = DOMAIN previous_results
        /\ \A p \in DOMAIN batch_results \ {retagged[1]} :
              batch_results[p] = previous_results[p]

\* the retagged file got another record, the other file of the batch the
\* same one
C20_OnlyRetaggedChangedWitness ==
    /\ pc = "analyze_returned"
    /\ retagged = Some(Str("/m/So.mp3"))
    /\ batch_paths = <<Str("/m/So.mp3"), Str("/m/Ar - So.mp3")>>
    /\ batch_results[Str("/m/So.mp3")] # previous_results[Str("/m/So.mp3")]
    /\ batch_results[Str("/m/Ar - So.mp3")] = previous_results[Str("/m/Ar - So.mp3")]

\* C21: clean_filename returns the name without its extension, untouched,
\* whenever the noise-stripped name has fewer than 2 characters, and the
\* noise-stripped name otherwise.
C21_FilenameFallbackUnderTwo ==
    pc = "name_cleaned" =>
        cleaned_name = IF Len(StrippedName(name_arg)) < 2
                       THEN SplitextRoot(name_arg)
                       ELSE StrippedName(name_arg)

\* 'x (Audio).mp3' came back as the single character 'x'
C21_OneCharacterNameWitness ==
    /\ pc = "name_cleaned"
    /\ name_arg = Str("x (Audio).mp3")
    /\ cleaned_name = Str("x")

\* C30: clean_filename applied to a name it returned gives that name again.
C30_CleanFilenameIdempotent ==
    pc = "name_cleaned_twice" => recleaned_name = cleaned_name

\* the second application cut 'So.', the result for 'So..mp3', down to 'So'
C30_DotCutAgainWitness ==
    /\ pc = "name_cleaned_twice"
    /\ name_arg = Str("So..mp3")
    /\ cleaned_name = Str("So.")
    /\ recleaned_name = Str("So")

\* a str: no None
IsStr(v) == v # NoneValue

\* C22: _process_file returns a record of three strings and never raises,
\* for every entry, policy and existing-tag map (empty map, artist absent,
\* empty or None); an artist without a source (no left segment under a
\* policy other than 'right', no artist tag) is the empty string in the
\* record; and _clean_title on an empty title returns ('', []).
C22_ResolverNeverRaises ==
    /\ pc # "file_raised"
    /\ pc = "file_processed" =>
          /\ IsStr(record.artist) /\ IsStr(record.title)
          /\ IsStr(record.composer)
          /\ (/\ policy # "right" /\ ~Truthy(item.left)
              /\ ~Truthy(<<Get(item.metadata, "artist", <<>>)>>))
                => record.artist = <<>>
    /\ Pair(_clean_title(<<>>, <<>>)) = [title |-> <<>>, featured |-> <<>>]

\* an entry without left segment whose artist tag is None made the call raise
C22_NoneArtistRaisesWitness ==
    /\ pc = "file_raised"
    /\ item.left = None
    /\ item.metadata["artist"] = NoneValue
    /\ policy = "unknown"

\* the result the claim gives for 'So <connector> N<tail>'
ConnectorRemoved(n, tail) ==
    [title |-> Str("So") \o tail, featured |-> n.names]

\* C23: a whole-word 'with' or 'x' in any letter case, followed by
\* whitespace and a text N that runs to the end of the title or to the next
\* opening bracket, is a feature marker: the names of N, separated by
\* commas or '&', are the featured list, and the connector with N is
\* removed from the title.
C23_BareConnectorsAreMarkers ==
    \A c \in CONNECTORS, n \in CONNECTED_NAMES, t \in CONNECTED_TAILS :
        (pc = "title_cleaned" /\ title_string = ConnectorTitle(c, n, t)) =>
            title_result = ConnectorRemoved(n, t)

\* 'So X Bo (live)' lost the opening bracket with the connector
C23_BracketRemovedWitness ==
    /\ pc = "title_cleaned"
    /\ title_string = Str("So X Bo (live)")
    /\ title_result = [title |-> Str("So live)"), featured |-> <<Str("Bo")>>]


(* C24 *)

\* C24: the value apply_cleaned_titles returns is the number of files whose
\* write_metadata call returned True; a file whose write returned False is
\* not counted.
C24_ReturnsCountOfWrittenFiles ==
    pc = "saved" =>
        saved_count = Cardinality({k \in DOMAIN writes : writes[k][2] = "true"})

\* a call that returned 2 although the write of one of its two files failed
C24_FailedWriteCountedWitness ==
    /\ pc = "saved"
    /\ saved_count = Len(writes)
    /\ \E k \in DOMAIN writes : writes[k][2] = "false"
    /\ \E k \in DOMAIN writes : writes[k][2] = "true"

(* C25 *)

APPLIED_TAGS == {"artist", "title", "composer"}

\* C27: a round of apply_cleaned_metadata changes only the artist, title and
\* composer tags of a file: every other tag that was stored is still stored
\* with the same value, and no other tag is stored that was absent before.
C27_ApplyChangesOnlyItsTags ==
    [][\A p \in DOMAIN disk :
         \A k \in (DOMAIN disk[p] \cup DOMAIN disk'[p]) \ APPLIED_TAGS :
            /\ k \in DOMAIN disk[p]
            /\ k \in DOMAIN disk'[p]
            /\ disk'[p][k] = disk[p][k]]_vars

\* a file was written and now has a length tag, which no file started with
C27_LengthTagCreatedWitness ==
    \E k \in DOMAIN writes :
        /\ writes[k][2] = "true"
        /\ "length" \in DOMAIN disk[writes[k][1]]

(* C29 *)

AllWritten ==
    /\ Len(writes) = Cardinality(DOMAIN cleaned_data)
    /\ \A k \in DOMAIN writes : writes[k][2] = "true"

\* C26: when the mapping of batch_clean_files has been applied with
\* apply_cleaned_metadata and every write succeeded, batch_clean_files on
\* the same paths returns that mapping again.
C26_PreviewAfterApplyIsSame ==
    (pc = "previewed" /\ first_preview # None /\ AllWritten)
        => cleaned_data = first_preview[1]

\* the second preview has another composer for a file than the first
C26_SecondPreviewDiffersWitness ==
    /\ pc = "previewed" /\ first_preview # None /\ AllWritten
    /\ \E p \in DOMAIN cleaned_data :
          cleaned_data[p].composer # first_preview[1][p].composer

(* C28 *)

\* the junk-indicator phrases the claim lists
LISTED_JUNK == JUNKY_INDICATORS \ {Str("accompanied by")}

HasListedJunk(text) == \E ind \in LISTED_JUNK : Contains(ind, Lower(text))

\* the artist candidate is the existing artist tag: the policy picks no
\* segment of the file name
CandidateFromTag(it, side) ==
    /\ ~(side = "left" /\ Truthy(it.left))
    /\ ~(side = "right" /\ it.right # <<>>)
    /\ IsStr(Get(it.metadata, "artist", <<>>))

\* C28: when the artist candidate of a file is its existing artist tag and
\* the tag has 100 or more characters, neither the artist nor the composer
\* of the record contains a junk-indicator phrase.
C28_NoJunkInRecord ==
    (pc = "file_processed" /\ CandidateFromTag(item, policy)
        /\ Len(Get(item.metadata, "artist", <<>>)) >= JUNKY_LENGTH)
    => /\ ~HasListedJunk(record.artist)
       /\ ~HasListedJunk(record.composer)

\* the record of a file with a tag of studio credits: the artist is the
\* band, the composer lists 'mastered by ...' and 'produced by ...'
C28_CreditsInComposerWitness ==
    /\ pc = "file_processed" /\ CandidateFromTag(item, policy)
    /\ Get(item.metadata, "artist", <<>>) = STUDIO_CREDITS
    /\ record.artist = Str("The Marias")
    /\ Contains(Str("mastered by"), Lower(record.composer))
    /\ Contains(Str("produced by"), Lower(record.composer))

====
